---- MODULE Spec2Model ----
(***************************************************************************)
(* The heap allocators of min-rust-os (src/min-rust-os/src/allocator.rs,   *)
(* allocator/bump.rs, allocator/linked_list.rs) as a state machine.        *)
(*                                                                         *)
(* One allocator is installed as the global allocator (allocator.rs:38-39  *)
(* chooses it at compile time); `which` records the choice.  The machine   *)
(* word is WordBits wide, so that the wrapping and the checked additions   *)
(* of the code can be observed; the heap is HeapWords words of 8 bytes,    *)
(* placed in the upper half of the address space so that a layout the      *)
(* Layout type accepts can overflow the end-address computation.           *)
(***************************************************************************)
EXTENDS Integers, Sequences, FiniteSets, Bags, TLC

VARIABLES
    which,      \* the allocator behind ALLOCATOR: "bump" or "linked_list"
    inited,     \* init_heap has called init
    bump,       \* BumpAllocator's fields
    head,       \* LinkedListAllocator: the chain after the dummy head node
    live,       \* bag of the allocations handed out and not yet freed
    last,       \* the last call on the allocator, with its result
    cyc,        \* observer of alloc(L); dealloc(p, L) cycles on one layout
    panicked,   \* a panic was raised (the kernel's panic handler never returns)
    fsb,        \* FixedSizeBlockAllocator's fields, with its fallback heap
    pf,         \* a call of a function without state: its arguments and result
    lk,         \* Locked<A>: the spin lock and the contexts calling through it
    ih,         \* init_heap: its position, the pages mapped, the frame allocator
    ex,         \* the executor, the keyboard task and the interrupts
    vga,        \* the VGA text buffer and the Writer on it
    mem,        \* the ListNodes of the free list as they lie in memory
    pr          \* the printing functions, their locks and the interrupt flag

vars == <<which, inited, bump, head, live, last, cyc, panicked, fsb, pf, lk, ih, ex,
          vga, mem, pr>>

\* the fields of the allocators of allocator/bump.rs and allocator/linked_list.rs
allocVars == <<bump, head>>
\* what the bump and the free-list allocator leave alone
notAlloc == <<fsb, pf, lk, ih, ex, vga, pr>>
\* what the fixed-size-block allocator leaves alone
notFsb == <<bump, head, pf, lk, ih, ex, vga, mem, pr>>
\* the state of the allocators
allocState == <<which, inited, bump, head, live, last, cyc, panicked, fsb, mem>>
\* what a call of a function without state leaves alone
notPure == <<allocState, lk, ih, ex, vga, pr>>
\* what the contexts calling through Locked leave alone in this model
notLocked == <<allocState, pf, ih, ex, vga, pr>>
\* what init_heap leaves alone
notInitHeap == <<which, bump, live, cyc, fsb, pf, lk, ex, vga, pr>>
\* what the executor and the interrupt handlers leave alone in this model
notExec == <<allocState, pf, lk, ih, vga, pr>>
\* what the Writer of vga_buffer.rs leaves alone
notVga == <<allocState, pf, lk, ih, ex, pr>>
\* what the printing functions leave alone in this model
notPrinter == <<allocState, pf, lk, ih, ex, vga>>

----------------------------------------------------------------------------
(* Bounds of the model *)

\* width of usize in bits
WordBits == 8
\* size of the heap in 8-byte words
HeapWords == 8
\* cap on the number of allocations alive at once
MaxLive == 3
\* cap on the cycle counter of the observer
MaxCycles == 2

----------------------------------------------------------------------------
(* Machine arithmetic *)

USIZE_MAX == 2^WordBits - 1
ISIZE_MAX == 2^(WordBits - 1) - 1

\* usize wrapping add / sub (release build arithmetic)
wrapping_add(a, b) == (a + b) % (USIZE_MAX + 1)
wrapping_sub(a, b) == (a - b + USIZE_MAX + 1) % (USIZE_MAX + 1)

\* usize::checked_add
checked_add(a, b) ==
    IF a + b > USIZE_MAX THEN [some |-> FALSE, val |-> 0]
    ELSE [some |-> TRUE, val |-> a + b]

RECURSIVE BitAnd(_, _)
\* bitwise & on usize
BitAnd(a, b) ==
    IF a = 0 \/ b = 0 THEN 0
    ELSE (a % 2) * (b % 2) + 2 * BitAnd(a \div 2, b \div 2)

\* bitwise ! on usize
BitNot(a) == USIZE_MAX - a

\* mutant: the address is returned as it is
align_up_noop(addr, align) == addr

\* mutant: the address is rounded down
align_up_down(addr, align) ==
    BitAnd(addr, BitNot(wrapping_sub(align, 1)))

\* (addr + align - 1) & !(align - 1)
align_up(addr, align) ==
    BitAnd(wrapping_sub(wrapping_add(addr, align), 1), BitNot(wrapping_sub(align, 1)))

\* the commented-out reference implementation
align_up_reference(addr, align) ==
    LET remainder == addr % align
    IN  IF remainder = 0 THEN addr ELSE addr - remainder + align

Max(a, b) == IF a >= b THEN a ELSE b

----------------------------------------------------------------------------
(* Constants of the program *)

\* ptr::null_mut()
null_mut == 0
\* mem::size_of::<ListNode>(): a usize and a pointer
SIZE_OF_LISTNODE == 16
\* mem::align_of::<ListNode>()
ALIGN_OF_LISTNODE == 8

\* the heap bounds handed to init (scaled to the model's address space)
HEAP_START == 2^(WordBits - 1) + 32
HEAP_SIZE == HeapWords * 8
HEAP_END == HEAP_START + HEAP_SIZE

----------------------------------------------------------------------------
(* Layouts: the requests the callers make *)

\* a size off the word boundary, a size that leaves 8 bytes of a 32-byte
\* region, the whole heap, and a size whose end address overflows
Sizes == {12, 24, HEAP_SIZE, ISIZE_MAX - 7}
Aligns == {1, 8, 16}

\* Layout::from_size_align: size rounded up to align must not exceed isize::MAX
Layouts ==
    {l \in [size : Sizes, align : Aligns] :
        align_up_reference(l.size, l.align) <= ISIZE_MAX}

\* what a call is recorded as
Call(op, layout, ptr, res) == [op |-> op, layout |-> layout, ptr |-> ptr, res |-> res]
NoLayout == [size |-> 0, align |-> 1]
NoCall == Call("none", NoLayout, null_mut, "ok")

Alloc(ptr, layout) == [ptr |-> ptr, layout |-> layout]
NLive == BagCardinality(live)

NoCycle == [phase |-> "none"]

----------------------------------------------------------------------------
(* Bump allocator *)

\* BumpAllocator::new
BumpNew == [heap_start |-> 0, heap_end |-> 0, next |-> 0, allocations |-> 0]

\* BumpAllocator::init
bump_init(b, heap_start, heap_size) ==
    [b EXCEPT !.heap_start = heap_start,
              !.heap_end = heap_start + heap_size,
              !.next = heap_start]

\* mutant: next is not moved past the allocation
bump_alloc_no_advance(b, layout) ==
    LET alloc_start == align_up(b.next, layout.align)
        alloc_end == checked_add(alloc_start, layout.size)
    IN  IF ~alloc_end.some THEN [bump |-> b, ptr |-> null_mut]
        ELSE IF alloc_end.val > b.heap_end THEN [bump |-> b, ptr |-> null_mut]
        ELSE [bump |-> [b EXCEPT !.allocations = b.allocations + 1],
              ptr |-> alloc_start]

\* mutant: the allocation starts at next, whatever the alignment asked for
bump_alloc_unaligned(b, layout) ==
    LET alloc_start == b.next
        alloc_end == checked_add(alloc_start, layout.size)
    IN  IF ~alloc_end.some THEN [bump |-> b, ptr |-> null_mut]
        ELSE IF alloc_end.val > b.heap_end THEN [bump |-> b, ptr |-> null_mut]
        ELSE [bump |-> [b EXCEPT !.next = alloc_end.val,
                                 !.allocations = b.allocations + 1],
              ptr |-> alloc_start]

\* mutant: the end of the heap is not checked
bump_alloc_no_bound(b, layout) ==
    LET alloc_start == align_up(b.next, layout.align)
        alloc_end == checked_add(alloc_start, layout.size)
    IN  IF ~alloc_end.some THEN [bump |-> b, ptr |-> null_mut]
        ELSE [bump |-> [b EXCEPT !.next = alloc_end.val,
                                 !.allocations = b.allocations + 1],
              ptr |-> alloc_start]

\* GlobalAlloc::alloc for Locked<BumpAllocator>: the new fields and the pointer
bump_alloc(b, layout) ==
    LET alloc_start == align_up(b.next, layout.align)
        alloc_end == checked_add(alloc_start, layout.size)
    IN  IF ~alloc_end.some THEN [bump |-> b, ptr |-> null_mut]
        ELSE IF alloc_end.val > b.heap_end THEN [bump |-> b, ptr |-> null_mut]
        ELSE [bump |-> [b EXCEPT !.next = alloc_end.val,
                                 !.allocations = b.allocations + 1],
              ptr |-> alloc_start]

\* mutant: next is reset by every dealloc
bump_dealloc_always_reset(b) ==
    [b EXCEPT !.allocations = b.allocations - 1, !.next = b.heap_start]

\* mutant: next is not reset when the counter reaches 0
bump_dealloc_no_reset(b) == [b EXCEPT !.allocations = b.allocations - 1]

\* GlobalAlloc::dealloc for Locked<BumpAllocator>
bump_dealloc(b) ==
    LET allocations == b.allocations - 1
    IN  IF allocations = 0
        THEN [b EXCEPT !.allocations = allocations, !.next = b.heap_start]
        ELSE [b EXCEPT !.allocations = allocations]

----------------------------------------------------------------------------
(* Free-list allocator *)

\* a ListNode, named by the address it is stored at
Node(start, size) == [start |-> start, size |-> size]
start_addr(node) == node.start
end_addr(node) == start_addr(node) + node.size

\* mutant: the assertions are left out
add_free_region_unchecked(addr, size) == TRUE

\* the assertions of add_free_region
add_free_region_ok(addr, size) ==
    /\ align_up(addr, ALIGN_OF_LISTNODE) = addr
    /\ size >= SIZE_OF_LISTNODE

\* mutant: a region that starts where the first node ends is merged into it
add_free_region_merged(list, addr, size) ==
    IF list # <<>> /\ end_addr(Head(list)) = addr
    THEN <<Node(Head(list).start, Head(list).size + size)>> \o Tail(list)
    ELSE <<Node(addr, size)>> \o list

\* mutant: the node is appended at the end of the list
add_free_region_back(list, addr, size) == list \o <<Node(addr, size)>>

\* add_free_region past its assertions: push to the front
add_free_region(list, addr, size) == <<Node(addr, size)>> \o list

\* mutant: the end of the region is not checked
alloc_from_region_no_end(region, size, align) ==
    LET alloc_start == align_up(start_addr(region), align)
        alloc_end == checked_add(alloc_start, size)
    IN  IF ~alloc_end.some THEN [ok |-> FALSE, alloc_start |-> 0]
        ELSE [ok |-> TRUE, alloc_start |-> alloc_start]

\* alloc_from_region
alloc_from_region(region, size, align) ==
    LET alloc_start == align_up(start_addr(region), align)
        alloc_end == checked_add(alloc_start, size)
    IN  IF ~alloc_end.some THEN [ok |-> FALSE, alloc_start |-> 0]
        ELSE IF alloc_end.val > end_addr(region) THEN [ok |-> FALSE, alloc_start |-> 0]
        ELSE [ok |-> TRUE, alloc_start |-> alloc_start]

\* the list without its i-th node
Unlink(list, i) == SubSeq(list, 1, i - 1) \o SubSeq(list, i + 1, Len(list))

\* mutant: the walk starts at the end of the list
RECURSIVE find_region_backwards_from(_, _, _, _)
find_region_backwards_from(list, i, size, align) ==
    LET k == Len(list) + 1 - i
    IN  IF k < 1 THEN [found |-> FALSE, list |-> list]
        ELSE IF alloc_from_region(list[k], size, align).ok
        THEN [found |-> TRUE,
              region |-> list[k],
              alloc_start |-> alloc_from_region(list[k], size, align).alloc_start,
              list |-> Unlink(list, k)]
        ELSE find_region_backwards_from(list, i + 1, size, align)

find_region_backwards(list, size, align) ==
    find_region_backwards_from(list, 1, size, align)

\* the loop of find_region, with current.next the i-th node of the list
RECURSIVE find_region_from(_, _, _, _)
find_region_from(list, i, size, align) ==
    IF i > Len(list) THEN [found |-> FALSE, list |-> list]
    ELSE IF alloc_from_region(list[i], size, align).ok
    THEN [found |-> TRUE,
          region |-> list[i],
          alloc_start |-> alloc_from_region(list[i], size, align).alloc_start,
          list |-> Unlink(list, i)]
    ELSE find_region_from(list, i + 1, size, align)

\* find_region: the walk starts at the dummy head
find_region(list, size, align) == find_region_from(list, 1, size, align)

\* size_align: align_to(align_of ListNode), which fails when the size padded
\* to the new alignment exceeds isize::MAX (the expect then panics), then
\* pad_to_align, then max with size_of ListNode
size_align(layout) ==
    LET align == Max(layout.align, ALIGN_OF_LISTNODE)
        padded == BitAnd(wrapping_sub(wrapping_add(layout.size, align), 1),
                         BitNot(wrapping_sub(align, 1)))
    IN  [ok |-> layout.size <= ISIZE_MAX - (align - 1),
         size |-> Max(padded, SIZE_OF_LISTNODE),
         align |-> align]

\* mutant: an alloc that finds no region drops the first node of the list
list_alloc_null_drops_head(list, layout) ==
    LET sa == size_align(layout)
        found == find_region(list, sa.size, sa.align)
    IN  IF ~sa.ok THEN [list |-> list, ptr |-> null_mut, res |-> "panic"]
        ELSE IF ~found.found
        THEN [list |-> IF list = <<>> THEN list ELSE Tail(list),
              ptr |-> null_mut, res |-> "null"]
        ELSE LET alloc_end == checked_add(found.alloc_start, sa.size)
                 excess_size == end_addr(found.region) - alloc_end.val
             IN  IF ~alloc_end.some
                 THEN [list |-> found.list, ptr |-> null_mut, res |-> "panic"]
                 ELSE IF excess_size > 0
                 THEN IF add_free_region_ok(alloc_end.val, excess_size)
                      THEN [list |-> add_free_region(found.list, alloc_end.val, excess_size),
                            ptr |-> found.alloc_start, res |-> "ok"]
                      ELSE [list |-> found.list, ptr |-> null_mut, res |-> "panic"]
                 ELSE [list |-> found.list, ptr |-> found.alloc_start, res |-> "ok"]

\* GlobalAlloc::alloc for Locked<LinkedListAllocator>
list_alloc(list, layout) ==
    LET sa == size_align(layout)
        found == find_region(list, sa.size, sa.align)
    IN  IF ~sa.ok THEN [list |-> list, ptr |-> null_mut, res |-> "panic"]
        ELSE IF ~found.found THEN [list |-> list, ptr |-> null_mut, res |-> "null"]
        ELSE LET alloc_end == checked_add(found.alloc_start, sa.size)
                 excess_size == end_addr(found.region) - alloc_end.val
             IN  IF ~alloc_end.some
                 THEN [list |-> found.list, ptr |-> null_mut, res |-> "panic"]
                 ELSE IF excess_size > 0
                 THEN IF add_free_region_ok(alloc_end.val, excess_size)
                      THEN [list |-> add_free_region(found.list, alloc_end.val, excess_size),
                            ptr |-> found.alloc_start, res |-> "ok"]
                      ELSE [list |-> found.list, ptr |-> null_mut, res |-> "panic"]
                 ELSE [list |-> found.list, ptr |-> found.alloc_start, res |-> "ok"]

\* mutant: the freed region is not put on the list
list_dealloc_leak(list, ptr, layout) == [list |-> list, res |-> "ok"]

\* mutant: the node gets the size of the layout as the caller passed it
list_dealloc_raw_size(list, ptr, layout) ==
    [list |-> add_free_region(list, ptr, layout.size), res |-> "ok"]

\* GlobalAlloc::dealloc for Locked<LinkedListAllocator>
list_dealloc(list, ptr, layout) ==
    LET sa == size_align(layout)
    IN  IF sa.ok /\ add_free_region_ok(ptr, sa.size)
        THEN [list |-> add_free_region(list, ptr, sa.size), res |-> "ok"]
        ELSE [list |-> list, res |-> "panic"]

\* The same list as it lies in memory: a ListNode at the address of each
\* free region, and the dummy head node inside the allocator.  `node` maps
\* the address of a node to its fields, next is null_mut for None; `diverged`
\* records that the loop of find_region did not come to an end.
HEAD_ADDR == 8

ListNodeNew(size) == [size |-> size, next |-> null_mut]

\* LinkedListAllocator::new
MemNew == [node |-> (HEAD_ADDR :> ListNodeNew(0)), diverged |-> FALSE]

\* add_free_region past its assertions, on the nodes in memory
mem_add_free_region(m, addr, size) ==
    LET node == [ListNodeNew(size) EXCEPT !.next = m.node[HEAD_ADDR].next]
        written == (addr :> node) @@ m.node
    IN  [m EXCEPT !.node = [written EXCEPT ![HEAD_ADDR].next = addr]]

\* the memory of a region taken off the list is the caller's: what the node
\* at its address held is not looked at again
mem_forget(m, addr) ==
    [m EXCEPT !.node = [x \in (DOMAIN m.node) \ {addr} |-> m.node[x]]]

\* mutant: the region found is handed out without being taken off the list
RECURSIVE mem_find_region_linked(_, _, _, _, _)
mem_find_region_linked(m, current, fuel, size, align) ==
    LET region == m.node[current].next
    IN  IF region = null_mut THEN [found |-> FALSE, mem |-> m]
        ELSE IF fuel = 0 THEN [found |-> FALSE, mem |-> [m EXCEPT !.diverged = TRUE]]
        ELSE IF alloc_from_region(Node(region, m.node[region].size), size, align).ok
        THEN [found |-> TRUE,
              region |-> Node(region, m.node[region].size),
              alloc_start |-> alloc_from_region(Node(region, m.node[region].size),
                                                size, align).alloc_start,
              mem |-> m]
        ELSE mem_find_region_linked(m, region, fuel - 1, size, align)

\* the loop of find_region on the nodes in memory; it has not come to an end
\* when it has looked at more regions than there are nodes
RECURSIVE mem_find_region(_, _, _, _, _)
mem_find_region(m, current, fuel, size, align) ==
    LET region == m.node[current].next
    IN  IF region = null_mut THEN [found |-> FALSE, mem |-> m]
        ELSE IF fuel = 0 THEN [found |-> FALSE, mem |-> [m EXCEPT !.diverged = TRUE]]
        ELSE IF alloc_from_region(Node(region, m.node[region].size), size, align).ok
        THEN LET next == m.node[region].next
             IN  [found |-> TRUE,
                  region |-> Node(region, m.node[region].size),
                  alloc_start |-> alloc_from_region(Node(region, m.node[region].size),
                                                    size, align).alloc_start,
                  mem |-> mem_forget([m EXCEPT !.node[region].next = null_mut,
                                               !.node[current].next = next],
                                     region)]
        ELSE mem_find_region(m, region, fuel - 1, size, align)

\* GlobalAlloc::alloc for Locked<LinkedListAllocator>, on the nodes in memory
mem_alloc(m, layout) ==
    LET sa == size_align(layout)
        found == mem_find_region(m, HEAD_ADDR, Cardinality(DOMAIN m.node),
                                 sa.size, sa.align)
    IN  IF ~sa.ok THEN m
        ELSE IF ~found.found THEN found.mem
        ELSE LET alloc_end == checked_add(found.alloc_start, sa.size)
                 excess_size == end_addr(found.region) - alloc_end.val
             IN  IF alloc_end.some /\ excess_size > 0
                    /\ add_free_region_ok(alloc_end.val, excess_size)
                 THEN mem_add_free_region(found.mem, alloc_end.val, excess_size)
                 ELSE found.mem

\* GlobalAlloc::dealloc for Locked<LinkedListAllocator>, on the nodes in memory
mem_dealloc(m, ptr, layout) ==
    LET sa == size_align(layout)
    IN  IF sa.ok /\ add_free_region_ok(ptr, sa.size)
        THEN mem_add_free_region(m, ptr, sa.size)
        ELSE m

----------------------------------------------------------------------------
(* Fixed-size-block allocator (allocator/fixed_size_block.rs) *)

\* number of largest-class blocks the heap handed to init holds
FsbHeapBlocks == 2
\* allocations of the fixed-size-block allocator live at a time
FsbMaxLive == 3

BLOCK_SIZES == <<8, 16, 32, 64, 128, 256, 512, 1024, 2048>>
LARGEST_BLOCK == BLOCK_SIZES[Len(BLOCK_SIZES)]
\* mem::size_of and mem::align_of of the allocator's ListNode: one pointer
FSB_SIZE_OF_LISTNODE == 8
FSB_ALIGN_OF_LISTNODE == 8

\* the heap bounds handed to FixedSizeBlockAllocator::init
FSB_HEAP_START == 2 * LARGEST_BLOCK
FSB_HEAP_SIZE == FsbHeapBlocks * LARGEST_BLOCK
FSB_HEAP_END == FSB_HEAP_START + FSB_HEAP_SIZE

\* the requests: two layouts of one small class (one by its size, one by its
\* alignment), the largest class, and two oversized ones
FsbLayouts ==
    {[size |-> 12, align |-> 8],
     [size |-> 8, align |-> 16],
     [size |-> LARGEST_BLOCK, align |-> 8],
     [size |-> LARGEST_BLOCK + 1, align |-> 8],
     [size |-> 8, align |-> 2 * LARGEST_BLOCK]}

\* Option<usize>
Some(v) == [some |-> TRUE, val |-> v]
None == [some |-> FALSE, val |-> 0]

\* mutant: the alignment of the layout is not looked at
list_index_size_only(layout) ==
    LET fits == {i \in 1..Len(BLOCK_SIZES) : BLOCK_SIZES[i] >= layout.size}
    IN  IF fits = {} THEN None
        ELSE Some(CHOOSE i \in fits : \A j \in fits : i <= j)

\* mutant: the first class strictly larger than the request
list_index_strict(layout) ==
    LET required_block_size == Max(layout.size, layout.align)
        fits == {i \in 1..Len(BLOCK_SIZES) : BLOCK_SIZES[i] > required_block_size}
    IN  IF fits = {} THEN None
        ELSE Some(CHOOSE i \in fits : \A j \in fits : i <= j)

\* list_index: BLOCK_SIZES.iter().position(|&s| s >= required_block_size);
\* the index counts from 1 here
list_index(layout) ==
    LET required_block_size == Max(layout.size, layout.align)
        fits == {i \in 1..Len(BLOCK_SIZES) : BLOCK_SIZES[i] >= required_block_size}
    IN  IF fits = {} THEN None
        ELSE Some(CHOOSE i \in fits : \A j \in fits : i <= j)

\* linked_list_allocator::Heap, the fallback (an external crate), by its
\* contract: `used` are the blocks handed out and not given back; a block
\* takes at least a hole header (a size and a pointer) and whole words.
\* Heap::empty has no memory.
HeapEmpty == [bottom |-> 0, size |-> 0, used |-> {}]

\* Heap::init
heap_init(heap_start, heap_size) ==
    [bottom |-> heap_start, size |-> heap_size, used |-> {}]

\* Heap::allocate_first_fit: the lowest address that fits; it is the heap
\* bottom or the end of a used block, rounded up to the alignment
heap_allocate_first_fit(h, layout) ==
    LET asize == align_up_reference(Max(layout.size, SIZE_OF_LISTNODE), ALIGN_OF_LISTNODE)
        starts == {h.bottom} \cup {u.ptr + u.asize : u \in h.used}
        fits == {q \in {align_up_reference(c, layout.align) : c \in starts} :
                    /\ q + asize <= h.bottom + h.size
                    /\ \A u \in h.used : q + asize <= u.ptr \/ u.ptr + u.asize <= q}
    IN  IF fits = {} THEN [ok |-> FALSE, heap |-> h, ptr |-> 0]
        ELSE LET q == CHOOSE x \in fits : \A y \in fits : x <= y
             IN  [ok |-> TRUE,
                  heap |-> [h EXCEPT !.used = @ \cup
                              {[ptr |-> q, size |-> layout.size, asize |-> asize]}],
                  ptr |-> q]

\* Heap::deallocate
heap_deallocate(h, ptr, layout) ==
    [h EXCEPT !.used = {u \in @ : u.ptr # ptr}]

\* FixedSizeBlockAllocator::new
FsbNew ==
    [list_heads |-> [i \in 1..Len(BLOCK_SIZES) |-> <<>>],
     fallback_allocator |-> HeapEmpty]

\* FixedSizeBlockAllocator::init
fsb_init(f, heap_start, heap_size) ==
    [f EXCEPT !.fallback_allocator = heap_init(heap_start, heap_size)]

\* FixedSizeBlockAllocator::fallback_alloc
fallback_alloc(f, layout) ==
    LET r == heap_allocate_first_fit(f.fallback_allocator, layout)
    IN  [fsb |-> [f EXCEPT !.fallback_allocator = r.heap],
         ptr |-> IF r.ok THEN r.ptr ELSE null_mut]

\* mutant: a new block is taken from the fallback although the list has one
fsb_alloc_no_reuse(f, layout) ==
    LET index == list_index(layout)
    IN  IF index.some
        THEN LET block_size == BLOCK_SIZES[index.val]
                 l2 == [size |-> block_size, align |-> block_size]
                 r == fallback_alloc(f, l2)
             IN  [fsb |-> r.fsb, ptr |-> r.ptr, path |-> "fallback", passed |-> l2]
        ELSE LET r == fallback_alloc(f, layout)
             IN  [fsb |-> r.fsb, ptr |-> r.ptr, path |-> "fallback", passed |-> layout]

\* GlobalAlloc::alloc for Locked<FixedSizeBlockAllocator>: the new fields, the
\* pointer, whether it came from a list or the fallback, and the layout the
\* fallback was asked for
fsb_alloc(f, layout) ==
    LET index == list_index(layout)
    IN  IF index.some
        THEN IF f.list_heads[index.val] # <<>>
             THEN [fsb |-> [f EXCEPT !.list_heads[index.val] = Tail(@)],
                   ptr |-> Head(f.list_heads[index.val]),
                   path |-> "list", passed |-> layout]
             ELSE LET block_size == BLOCK_SIZES[index.val]
                      block_align == block_size
                      l2 == [size |-> block_size, align |-> block_align]
                      r == fallback_alloc(f, l2)
                  IN  [fsb |-> r.fsb, ptr |-> r.ptr, path |-> "fallback", passed |-> l2]
        ELSE LET r == fallback_alloc(f, layout)
             IN  [fsb |-> r.fsb, ptr |-> r.ptr, path |-> "fallback", passed |-> layout]

\* mutant: every freed block is given back to the fallback allocator
fsb_dealloc_to_fallback(f, ptr, layout) ==
    [fsb |-> [f EXCEPT !.fallback_allocator = heap_deallocate(@, ptr, layout)],
     res |-> "ok"]

\* mutant: the freed block is put at the end of its list
fsb_dealloc_back(f, ptr, layout) ==
    LET index == list_index(layout)
    IN  IF index.some
        THEN [fsb |-> [f EXCEPT !.list_heads[index.val] = @ \o <<ptr>>], res |-> "ok"]
        ELSE [fsb |-> [f EXCEPT !.fallback_allocator = heap_deallocate(@, ptr, layout)],
              res |-> "ok"]

\* GlobalAlloc::dealloc for Locked<FixedSizeBlockAllocator>
fsb_dealloc(f, ptr, layout) ==
    LET index == list_index(layout)
    IN  IF index.some
        THEN IF /\ FSB_SIZE_OF_LISTNODE <= BLOCK_SIZES[index.val]
                /\ FSB_ALIGN_OF_LISTNODE <= BLOCK_SIZES[index.val]
             THEN [fsb |-> [f EXCEPT !.list_heads[index.val] = <<ptr>> \o @],
                   res |-> "ok"]
             ELSE [fsb |-> f, res |-> "panic"]
        ELSE IF ptr = null_mut THEN [fsb |-> f, res |-> "panic"]
             ELSE [fsb |-> [f EXCEPT !.fallback_allocator = heap_deallocate(@, ptr, layout)],
                   res |-> "ok"]

----------------------------------------------------------------------------
(* The functions without state: align_up, list_index, size_align *)

\* a call: the function, its arguments (an address or a size, and an
\* alignment), its result, and whether it panicked instead of returning
Apply(fn, x, align, out, panic) ==
    [fn |-> fn, x |-> x, align |-> align, out |-> out, panic |-> panic]
NoApply == Apply("none", 0, 1, 0, FALSE)

\* the arguments drawn: every machine word and the sizes around each block
\* size; the powers of two up to twice the largest block size
PureXs ==
    (0..USIZE_MAX)
        \cup UNION {{BLOCK_SIZES[i] - 1, BLOCK_SIZES[i], BLOCK_SIZES[i] + 1} :
                        i \in 1..Len(BLOCK_SIZES)}
        \cup {2 * LARGEST_BLOCK}
PureAligns ==
    {1, 2, 4} \cup {BLOCK_SIZES[i] : i \in 1..Len(BLOCK_SIZES)} \cup {2 * LARGEST_BLOCK}

\* Layout::from_size_align accepts the pair, in the model's machine word
ValidLayout(size, align) ==
    /\ align <= ISIZE_MAX + 1
    /\ size <= ISIZE_MAX - (align - 1)

----------------------------------------------------------------------------
(* Locked<A>, the spin lock around the allocator (allocator.rs) *)

\* contexts that call the allocator: the kernel's main flow and what may
\* interrupt it
NCtx == 2
Ctxs == 1..NCtx

\* the steps of the calls through Locked, in program order: "pure" touches no
\* allocator state, "lock" is Locked::lock, "access" reads or writes the
\* wrapped allocator, "unlock" is the drop of the MutexGuard
\* A call is named by the path it takes.  Free-list allocator: "alloc" finds
\* no region or one that fits perfectly, "alloc_excess" puts a leftover back,
\* "alloc_panic" fails an assertion of add_free_region on the leftover,
\* "alloc_adjust_panic" panics in size_align.  Bump allocator: "bump_overflow"
\* and "bump_oom" return null, "bump_alloc" advances next.  Fixed-size-block
\* allocator: "fsb_alloc_block" takes a block from a list, "fsb_alloc_refill"
\* finds the list empty and asks the fallback allocator, "fsb_alloc_large" has
\* no block size; "fsb_dealloc_block" and "fsb_dealloc_large" accordingly.
\* "panic" never returns: unwinding is off, the panic handler halts.
Prog(op) ==
    CASE op = "init" -> <<"lock", "access", "unlock">>
      [] op = "alloc" -> <<"pure", "lock", "access", "unlock">>
      [] op = "alloc_excess" -> <<"pure", "lock", "access", "access", "unlock">>
      [] op = "alloc_panic" -> <<"pure", "lock", "access", "access", "panic">>
      [] op = "alloc_adjust_panic" -> <<"pure", "panic">>
      [] op = "dealloc" -> <<"pure", "lock", "access", "unlock">>
      [] op = "bump_overflow" -> <<"lock", "access", "pure", "unlock">>
      [] op = "bump_oom" -> <<"lock", "access", "pure", "access", "unlock">>
      [] op = "bump_alloc" -> <<"lock", "access", "pure", "access", "access", "unlock">>
      [] op = "bump_dealloc" -> <<"lock", "access", "unlock">>
      [] op = "fsb_alloc_block" -> <<"lock", "pure", "access", "access", "unlock">>
      [] op = "fsb_alloc_refill" -> <<"lock", "pure", "access", "pure", "access", "unlock">>
      [] op = "fsb_alloc_large" -> <<"lock", "pure", "access", "unlock">>
      [] op = "fsb_dealloc_block" -> <<"lock", "pure", "access", "access", "unlock">>
      [] op = "fsb_dealloc_large" -> <<"lock", "pure", "access", "unlock">>
      [] OTHER -> <<>>

\* the calls each allocator offers behind ALLOCATOR
OpsOf(w) ==
    CASE w = "linked_list" ->
            {"init", "alloc", "alloc_excess", "alloc_panic", "alloc_adjust_panic",
             "dealloc"}
      [] w = "bump" ->
            {"init", "bump_overflow", "bump_oom", "bump_alloc", "bump_dealloc"}
      [] w = "fixed_size_block" ->
            {"init", "fsb_alloc_block", "fsb_alloc_refill", "fsb_alloc_large",
             "fsb_dealloc_block", "fsb_dealloc_large"}
      [] OTHER -> {}
LockedOps == OpsOf("linked_list") \cup OpsOf("bump") \cup OpsOf("fixed_size_block")

\* the calls that return null
NullPaths == {"alloc", "bump_overflow", "bump_oom", "fsb_alloc_refill", "fsb_alloc_large"}

\* Locked::new: the lock is free, no context is in a call
LockedNew ==
    [locked |-> FALSE, holder |-> 0,
     op |-> [c \in Ctxs |-> "none"], pc |-> [c \in Ctxs |-> 0], touch |-> 0,
     acquired |-> [c \in Ctxs |-> 0], returned |-> "none"]

\* mutant: the lock is taken without looking at it
lock_unchecked(locked) == [acquired |-> TRUE, locked |-> TRUE]

\* Locked::lock, one turn of spin::Mutex::lock: the compare-and-swap of the
\* flag from false to true
lock(locked) ==
    IF locked THEN [acquired |-> FALSE, locked |-> TRUE]
    ELSE [acquired |-> TRUE, locked |-> TRUE]

\* mutant: the guard is forgotten (mem::forget) instead of dropped
unlock_forgotten(locked) == locked

\* the drop of the MutexGuard: the flag is stored false
unlock(locked) == FALSE

\* the step the context is at
StepOf(c) ==
    IF lk.pc[c] = 0 THEN "idle" ELSE Prog(lk.op[c])[lk.pc[c]]

----------------------------------------------------------------------------
(* init_heap (allocator.rs) and the frame allocator (memory.rs) *)

\* frames the memory map may hold, and page-table frames one map_to may need
MaxFrames == 6
MaxTableFrames == 2

\* the size of a page (Size4KiB), scaled to the model's address space
PAGE_SIZE == 16

\* Page::containing_address
containing_address(addr) == addr \div PAGE_SIZE

\* page_range: Page::range_inclusive(heap_start_page, heap_end_page)
page_range ==
    containing_address(HEAP_START)..containing_address(HEAP_START + HEAP_SIZE - 1)

\* what MapToError the mapper may return
MapToErrors == {"FrameAllocationFailed", "ParentEntryHugePage", "PageAlreadyMapped"}

\* init_heap at `pc`, about to handle `page`, with the frame allocator at
\* `next` of `usable` frames
InitHeapState(pc, page, mapped, next, usable, result, inits, mappedAtInit) ==
    [pc |-> pc, page |-> page, mapped |-> mapped, next |-> next, usable |-> usable,
     result |-> result, inits |-> inits, mappedAtInit |-> mappedAtInit]
InitHeapNotCalled ==
    InitHeapState("none", 0, {}, 0, 0, "none", 0, {})

\* BootInfoFrameAllocator::allocate_frame, asked n times in a row: the new
\* `next`, and whether every call returned a frame
allocate_frame(next, usable, n) ==
    [next |-> IF next + n <= usable THEN next + n ELSE usable + 1,
     some |-> next + n <= usable]

\* mutant: the error is dropped and the function goes on
question_mark_ignored(result) == FALSE

\* the ? operator: the function returns its argument to the caller when it
\* is an error
question_mark(result) == result # "ok"

----------------------------------------------------------------------------
(* The executor (task/executor.rs), the keyboard task (task/keyboard.rs) and
   the interrupt handlers (interrupts.rs), on one CPU *)

\* tasks spawned before run, and interrupts delivered in a run
NTasks == 2
MaxInterrupts == 3
TaskIds == 1..NTasks

\* the task that runs print_keypresses; every other task is done at its
\* first poll
KEYBOARD_TASK == 1

\* ArrayQueue::new(100), for task_queue and for SCANCODE_QUEUE
TASK_QUEUE_CAPACITY == 100
SCANCODE_QUEUE_CAPACITY == 100

\* Executor::new followed by a spawn of each task of `order`; the statics of
\* task/keyboard.rs; the CPU with interrupts enabled.
\*   task_queue_capacity  what ArrayQueue::new was given for task_queue
\*   rc[t]      strong count of the Arc<TaskWaker> of task t (0: none)
\*   created[t] how many times TaskWaker::new ran for task t
\*   ignored    how many ids were popped that had no task in the map
\*   WAKER      the task whose waker the AtomicWaker holds (0: none)
\*   alloc_lock "main" while the main flow is inside the allocator
\*   int_alloc  an interrupt handler has asked for the allocator lock
\*   stuck      an interrupt handler spins on a lock the main flow holds
\*   nint       interrupts and exceptions delivered so far
\*   handler    the handler that ran since the last step of the main flow
ExecutorNew(order) ==
    [tasks |-> {order[i] : i \in 1..Len(order)},
     task_queue |-> order,
     task_queue_capacity |-> TASK_QUEUE_CAPACITY,
     waker_cache |-> {},
     rc |-> [t \in TaskIds |-> 0],
     created |-> [t \in TaskIds |-> 0],
     ignored |-> 0,
     WAKER |-> 0,
     SCANCODE_QUEUE |-> [init |-> FALSE, len |-> 0],
     pc |-> "pop", task_id |-> 0,
     interrupts |-> TRUE, halted |-> FALSE,
     alloc_lock |-> "free", int_alloc |-> FALSE, stuck |-> FALSE, panic |-> FALSE,
     nint |-> 0, handler |-> "none"]

\* ArrayQueue::is_empty
is_empty(queue) == queue = <<>>

\* drop of a Waker made of an Arc<TaskWaker>: the count goes down, and the
\* TaskWaker is deallocated when it was the last one
drop_waker(e, t) ==
    [e EXCEPT !.rc[t] = @ - 1]
LastWaker(e, t) == e.rc[t] = 1

\* mutant: the waker is moved into WAKER instead of cloned
waker_register_moved(e, t) ==
    IF e.WAKER = t THEN e ELSE [e EXCEPT !.WAKER = t]

\* WAKER.register(&cx.waker()) in the main flow: nothing when the waker held
\* wakes the same task, else a clone of the waker is stored
waker_register(e, t) ==
    IF e.WAKER = t THEN e
    ELSE [e EXCEPT !.WAKER = t, !.rc[t] = @ + 1]

\* WAKER.take() in the main flow: the waker held, if any, is dropped
waker_take(e) ==
    IF e.WAKER = 0 THEN e
    ELSE [drop_waker(e, e.WAKER) EXCEPT !.WAKER = 0]

\* WAKER.wake() in an interrupt handler: the waker held, if any, is taken and
\* woken (TaskWaker::wake: wake_task pushes the task id, expect panics when
\* the queue is full), and then dropped; the drop of the last reference
\* deallocates, which needs the allocator lock
waker_wake(e) ==
    IF e.WAKER = 0 THEN e
    ELSE IF Len(e.task_queue) >= e.task_queue_capacity
         THEN [e EXCEPT !.WAKER = 0, !.panic = TRUE]
    ELSE LET t == e.WAKER
             dealloc == LastWaker(e, t)
         IN  [drop_waker(e, t) EXCEPT
                 !.WAKER = 0,
                 !.task_queue = Append(@, t),
                 !.int_alloc = @ \/ dealloc,
                 !.stuck = @ \/ (dealloc /\ e.alloc_lock = "main")]

\* mutant: the waker is taken out of the cache and dropped after a poll that
\* returned Pending
poll_pending_uncached(e) ==
    [drop_waker(e, e.task_id) EXCEPT !.waker_cache = @ \ {e.task_id},
                                     !.pc = "pop", !.task_id = 0]

\* Poll::Pending => {}: the waker stays in waker_cache, the loop goes on
poll_pending(e) == [e EXCEPT !.pc = "pop", !.task_id = 0]

\* mutant: an id whose task is gone is given a waker and polled
task_not_found_polled(e, task_id) ==
    [e EXCEPT !.pc = "new_waker", !.task_id = task_id, !.alloc_lock = "main"]

\* None => continue: the id popped has no task in the map, the loop goes on
\* with the next id
task_not_found(e, task_id) == [e EXCEPT !.ignored = @ + 1]

\* mutant: the task is removed and its waker stays in the cache
poll_ready_keeps_waker(e) ==
    [e EXCEPT !.tasks = @ \ {e.task_id},
              !.alloc_lock = "free",
              !.pc = "pop", !.task_id = 0]

\* Poll::Ready(()): tasks.remove(&task_id) and waker_cache.remove(&task_id),
\* which drops the waker the cache held
poll_ready(e) ==
    [drop_waker(e, e.task_id) EXCEPT
        !.tasks = @ \ {e.task_id},
        !.waker_cache = @ \ {e.task_id},
        !.alloc_lock = "free",
        !.pc = "pop", !.task_id = 0]

\* TaskWaker::wake_by_ref in the main flow, called by the task polled on the
\* waker of its context: wake_task pushes the id, expect panics when the
\* queue is full
wake_by_ref(e, t) ==
    IF Len(e.task_queue) >= e.task_queue_capacity
    THEN [e EXCEPT !.panic = TRUE]
    ELSE [e EXCEPT !.task_queue = Append(@, t)]

\* mutant: the scancode is pushed and nobody is woken
add_scancode_no_wake(e) ==
    IF ~e.SCANCODE_QUEUE.init THEN e
    ELSE IF e.SCANCODE_QUEUE.len >= SCANCODE_QUEUE_CAPACITY THEN e
    ELSE [e EXCEPT !.SCANCODE_QUEUE.len = @ + 1]

\* add_scancode(scancode), called in the keyboard interrupt
add_scancode(e) ==
    IF ~e.SCANCODE_QUEUE.init THEN e
    ELSE IF e.SCANCODE_QUEUE.len >= SCANCODE_QUEUE_CAPACITY THEN e
    ELSE waker_wake([e EXCEPT !.SCANCODE_QUEUE.len = @ + 1])

\* mutant: the CPU is halted without a second look at the queue
sleep_if_idle_no_recheck(e) ==
    [e EXCEPT !.interrupts = TRUE, !.halted = TRUE, !.pc = "hlt"]

\* sleep_if_idle after interrupts::disable(): enable_and_hlt() when the queue
\* is still empty, interrupts::enable() otherwise
sleep_if_idle_recheck(e) ==
    IF is_empty(e.task_queue)
    THEN [e EXCEPT !.interrupts = TRUE, !.halted = TRUE, !.pc = "hlt"]
    ELSE [e EXCEPT !.interrupts = TRUE, !.pc = "pop"]

----------------------------------------------------------------------------
(* Printing: _print of vga_buffer.rs and of serial.rs, the other users of
   WRITER, and the handlers that print (interrupts.rs) *)

\* the spin::Mutex statics the printing functions go through
Locks == {"WRITER", "SERIAL1"}

\* kernel_main as the bootloader enters it: interrupts are disabled until
\* min_rust_os::init() enables them.
\*   phase    "boot" before init(), "run" after it
\*   interrupts  the interrupt flag of the CPU
\*   pc       the main flow inside a printing function: "idle" outside,
\*            then "lock", "write", "unlock", "restore"
\*   fn       the function of the main flow that is printing
\*   lock     the lock it goes through
\*   saved    saved_intpt_flag of without_interrupts
\*   held[l]  "free", or "main" while the main flow holds lock l
\*   stuck    the handler that spins on a lock the main flow holds
\*   nprints  printing calls of the main flow so far
\*   nint     interrupts and exceptions delivered so far
\*   handler  the handler that ran since the last step of the main flow
PrinterNew ==
    [phase |-> "boot", interrupts |-> FALSE,
     pc |-> "idle", fn |-> "none", lock |-> "none", saved |-> FALSE,
     held |-> [l \in Locks |-> "free"],
     stuck |-> "none", nprints |-> 0, nint |-> 0, handler |-> "none"]

\* mutant: the closure runs with the interrupts as they were
without_interrupts_enabled(p) ==
    [p EXCEPT !.saved = p.interrupts]

\* interrupts::without_interrupts before its closure: the flag is saved and
\* the interrupts are disabled
without_interrupts(p) ==
    [p EXCEPT !.saved = p.interrupts, !.interrupts = FALSE]

\* interrupts::without_interrupts after its closure: the interrupts are
\* enabled again when they were enabled before
without_interrupts_end(p) ==
    [p EXCEPT !.interrupts = p.saved, !.saved = FALSE]

\* print! in a handler, which runs with the interrupts disabled: _print
\* locks WRITER, writes and unlocks; Mutex::lock spins for ever when the
\* context that was interrupted holds the lock
handler_print(p, l, name) ==
    IF p.held[l] # "free" THEN [p EXCEPT !.stuck = name] ELSE p

----------------------------------------------------------------------------
(* The VGA text buffer and its Writer (vga_buffer.rs) *)

\* rows of the text buffer in the model (25 in vga_buffer.rs:50)
VgaRows == 3
\* columns of the text buffer in the model (80 in vga_buffer.rs:51)
VgaCols == 2
\* cap on the number of calls on the Writer
MaxWrites == 2

BUFFER_HEIGHT == VgaRows
BUFFER_WIDTH == VgaCols

\* b'\n'
NEWLINE == 10
\* b' ', the character of a cleared cell
BLANK == 32
\* 0x20 and 0x7e, the range of the printable ASCII bytes
PRINTABLE_MIN == 32
PRINTABLE_MAX == 126
\* 0xfe, written in place of a byte outside the printable range
UNPRINTABLE == 254
\* a character left on the screen before the kernel wrote anything
STALE == 120

\* the bytes the callers write: newline, two letters, one non-ASCII byte
VgaBytes == {NEWLINE, 97, 98, 195}

RECURSIVE StringsUpTo(_)
StringsUpTo(n) ==
    IF n = 0 THEN {<<>>}
    ELSE LET shorter == StringsUpTo(n - 1)
         IN shorter \cup {Append(t, b) : t \in {u \in shorter : Len(u) = n - 1},
                                         b \in VgaBytes}

\* the strings the kernel prints before the test
VgaShortStrings == StringsUpTo(2)

\* the strings the test prints: one byte longer than a row at most
VgaStrings == StringsUpTo(BUFFER_WIDTH + 1)

\* Every ScreenChar carries the colour code of the Writer, which no method
\* changes; a cell is modelled by its ascii_character.
BlankRow == [col \in 0..(BUFFER_WIDTH - 1) |-> BLANK]
StaleRow == [col \in 0..(BUFFER_WIDTH - 1) |-> STALE]
BlankBuffer == [row \in 0..(BUFFER_HEIGHT - 1) |-> BlankRow]

\* WRITER: column 0, on the memory-mapped buffer with what it holds
WriterNew(chars) == [column_position |-> 0, chars |-> chars]

VgaNew(chars) ==
    [writer |-> WriterNew(chars), n |-> 0, last |-> [op |-> "none", s |-> <<>>]]

clear_row(w, row) == [w EXCEPT !.chars[row] = BlankRow]

\* a new_line that clears the last row without moving the rows up
new_line_no_scroll(w) ==
    [clear_row(w, BUFFER_HEIGHT - 1) EXCEPT !.column_position = 0]

new_line(w) ==
    LET moved == [row \in 0..(BUFFER_HEIGHT - 1) |->
                    IF row < BUFFER_HEIGHT - 1 THEN w.chars[row + 1]
                    ELSE w.chars[row]]
    IN  [clear_row([w EXCEPT !.chars = moved], BUFFER_HEIGHT - 1)
            EXCEPT !.column_position = 0]

write_byte(w, byte) ==
    IF byte = NEWLINE THEN new_line(w)
    ELSE LET w1 == IF w.column_position >= BUFFER_WIDTH THEN new_line(w) ELSE w
             row == BUFFER_HEIGHT - 1
             col == w1.column_position
         IN  [w1 EXCEPT !.chars[row][col] = byte, !.column_position = col + 1]

RECURSIVE write_string(_, _)
write_string(w, s) ==
    IF s = <<>> THEN w
    ELSE LET byte == Head(s)
             w1 == IF byte \in PRINTABLE_MIN..PRINTABLE_MAX \/ byte = NEWLINE
                   THEN write_byte(w, byte)
                   ELSE write_byte(w, UNPRINTABLE)
         IN  write_string(w1, Tail(s))

\* writeln!(writer, "\n{}", s): the pieces of the format, one write_str each
writeln_newline_then(w, s) ==
    write_string(write_string(write_string(w, <<NEWLINE>>), s), <<NEWLINE>>)

----------------------------------------------------------------------------
(* The observer of alloc(L); dealloc(p, L) cycles *)

\* after an alloc of `layout` that returned `ptr` with result `res`
CycleAlloc(c, layout, ptr, res) ==
    IF c.phase = "freed" /\ c.layout = layout
    THEN IF res = "ok"
         THEN [c EXCEPT !.phase = "held", !.ptr = ptr]
         ELSE [c EXCEPT !.phase = "failed", !.ptr = null_mut]
    ELSE IF res = "ok"
         THEN [phase |-> "held", layout |-> layout, first |-> ptr, ptr |-> ptr,
               n |-> 0, snap |-> <<>>]
         ELSE NoCycle

\* after dealloc(ptr, layout) left the free list as `list`
CycleDealloc(c, ptr, layout, list) ==
    IF c.phase = "held" /\ c.layout = layout /\ c.ptr = ptr
    THEN [c EXCEPT !.phase = "freed",
                   !.n = IF c.n < MaxCycles THEN c.n + 1 ELSE c.n,
                   !.snap = IF c.n = 0 THEN list ELSE c.snap]
    ELSE NoCycle

----------------------------------------------------------------------------
(* The state machine *)

Init ==
    /\ which \in {"bump", "linked_list"}
    /\ inited = FALSE
    /\ bump = BumpNew
    /\ head = <<>>
    /\ mem = MemNew
    /\ live = EmptyBag
    /\ last = NoCall
    /\ cyc = NoCycle
    /\ panicked = FALSE
    /\ fsb = FsbNew
    /\ pf = NoApply
    /\ lk = LockedNew
    /\ ih = InitHeapNotCalled
    /\ ex = ExecutorNew(<<>>)
    /\ vga = VgaNew(BlankBuffer)
    /\ pr = PrinterNew

\* init_heap, with the bump allocator installed
BumpInit ==
    /\ which = "bump" /\ ~inited /\ ~panicked
    /\ inited' = TRUE
    /\ bump' = bump_init(bump, HEAP_START, HEAP_SIZE)
    /\ last' = Call("init", NoLayout, null_mut, "ok")
    /\ UNCHANGED <<which, head, live, cyc, panicked, mem>>
    /\ UNCHANGED notAlloc

BumpAlloc(layout) ==
    /\ which = "bump" /\ ~panicked
    /\ NLive < MaxLive
    /\ LET r == bump_alloc(bump, layout)
       IN  /\ bump' = r.bump
           /\ live' = IF r.ptr = null_mut THEN live
                      ELSE live (+) SetToBag({Alloc(r.ptr, layout)})
           /\ last' = Call("alloc", layout, r.ptr,
                           IF r.ptr = null_mut THEN "null" ELSE "ok")
    /\ UNCHANGED <<which, inited, head, cyc, panicked, mem>>
    /\ UNCHANGED notAlloc

\* a dealloc the contract allows: pointer and layout of a live allocation
BumpDealloc(a) ==
    /\ which = "bump" /\ ~panicked
    /\ BagIn(a, live)
    /\ bump' = bump_dealloc(bump)
    /\ live' = live (-) SetToBag({a})
    /\ last' = Call("dealloc", a.layout, a.ptr, "ok")
    /\ UNCHANGED <<which, inited, head, cyc, panicked, mem>>
    /\ UNCHANGED notAlloc

\* init_heap, with the free-list allocator installed
ListInit ==
    /\ which = "linked_list" /\ ~inited /\ ~panicked
    /\ inited' = TRUE
    /\ IF add_free_region_ok(HEAP_START, HEAP_SIZE)
       THEN /\ head' = add_free_region(head, HEAP_START, HEAP_SIZE)
            /\ mem' = mem_add_free_region(mem, HEAP_START, HEAP_SIZE)
            /\ panicked' = FALSE
       ELSE head' = head /\ mem' = mem /\ panicked' = TRUE
    /\ last' = Call("init", NoLayout, null_mut, "ok")
    /\ UNCHANGED <<which, bump, live, cyc>>
    /\ UNCHANGED notAlloc

ListAlloc(layout) ==
    /\ which = "linked_list" /\ ~panicked
    /\ NLive < MaxLive
    /\ LET r == list_alloc(head, layout)
       IN  /\ head' = r.list
           /\ mem' = mem_alloc(mem, layout)
           /\ panicked' = (r.res = "panic")
           /\ live' = IF r.res = "ok"
                      THEN live (+) SetToBag({Alloc(r.ptr, layout)})
                      ELSE live
           /\ last' = Call("alloc", layout, r.ptr, r.res)
           /\ cyc' = CycleAlloc(cyc, layout, r.ptr, r.res)
    /\ UNCHANGED <<which, inited, bump>>
    /\ UNCHANGED notAlloc

\* a dealloc the contract allows: pointer and layout of a live allocation
ListDealloc(a) ==
    /\ which = "linked_list" /\ ~panicked
    /\ BagIn(a, live)
    /\ LET r == list_dealloc(head, a.ptr, a.layout)
       IN  /\ head' = r.list
           /\ mem' = mem_dealloc(mem, a.ptr, a.layout)
           /\ panicked' = (r.res = "panic")
           /\ last' = Call("dealloc", a.layout, a.ptr, r.res)
           /\ cyc' = CycleDealloc(cyc, a.ptr, a.layout, r.list)
    /\ live' = live (-) SetToBag({a})
    /\ UNCHANGED <<which, inited, bump>>
    /\ UNCHANGED notAlloc

Next ==
    \/ BumpInit
    \/ \E layout \in Layouts : BumpAlloc(layout)
    \/ \E a \in BagToSet(live) : BumpDealloc(a)
    \/ ListInit
    \/ \E layout \in Layouts : ListAlloc(layout)
    \/ \E a \in BagToSet(live) : ListDealloc(a)

Spec == Init /\ [][Next]_vars

----------------------------------------------------------------------------
(* The state machine of the fixed-size-block allocator *)

\* a call on the fixed-size-block allocator, with the path alloc took
FsbCall(op, layout, ptr, res, path, passed) ==
    [op |-> op, layout |-> layout, ptr |-> ptr, res |-> res,
     path |-> path, passed |-> passed]

InitFsb ==
    /\ which = "fixed_size_block"
    /\ inited = FALSE
    /\ bump = BumpNew
    /\ head = <<>>
    /\ mem = MemNew
    /\ live = EmptyBag
    /\ last = NoCall
    /\ cyc = NoCycle
    /\ panicked = FALSE
    /\ fsb = FsbNew
    /\ pf = NoApply
    /\ lk = LockedNew
    /\ ih = InitHeapNotCalled
    /\ ex = ExecutorNew(<<>>)
    /\ vga = VgaNew(BlankBuffer)
    /\ pr = PrinterNew

\* init_heap, with the fixed-size-block allocator installed
FsbInit ==
    /\ ~inited /\ ~panicked
    /\ inited' = TRUE
    /\ fsb' = fsb_init(fsb, FSB_HEAP_START, FSB_HEAP_SIZE)
    /\ last' = FsbCall("init", NoLayout, null_mut, "ok", "none", NoLayout)
    /\ UNCHANGED <<which, live, cyc, panicked>>
    /\ UNCHANGED notFsb

FsbAlloc(layout) ==
    /\ ~panicked
    /\ NLive < FsbMaxLive
    /\ LET r == fsb_alloc(fsb, layout)
           res == IF r.ptr = null_mut THEN "null" ELSE "ok"
       IN  /\ fsb' = r.fsb
           /\ live' = IF r.ptr = null_mut THEN live
                      ELSE live (+) SetToBag({Alloc(r.ptr, layout)})
           /\ last' = FsbCall("alloc", layout, r.ptr, res, r.path, r.passed)
           /\ cyc' = CycleAlloc(cyc, layout, r.ptr, res)
    /\ UNCHANGED <<which, inited, panicked>>
    /\ UNCHANGED notFsb

\* a dealloc the contract allows: pointer and layout of a live allocation
FsbDealloc(a) ==
    /\ ~panicked
    /\ BagIn(a, live)
    /\ LET r == fsb_dealloc(fsb, a.ptr, a.layout)
       IN  /\ fsb' = r.fsb
           /\ panicked' = (r.res = "panic")
           /\ last' = FsbCall("dealloc", a.layout, a.ptr, r.res, "none", NoLayout)
           /\ cyc' = CycleDealloc(cyc, a.ptr, a.layout, r.fsb.list_heads)
    /\ live' = live (-) SetToBag({a})
    /\ UNCHANGED <<which, inited>>
    /\ UNCHANGED notFsb

NextFsb ==
    \/ FsbInit
    \/ \E layout \in FsbLayouts : FsbAlloc(layout)
    \/ \E a \in BagToSet(live) : FsbDealloc(a)

SpecFsb == InitFsb /\ [][NextFsb]_vars

----------------------------------------------------------------------------
(* The functions without state, each applied once to drawn arguments *)

InitPure ==
    /\ which = "none"
    /\ inited = FALSE
    /\ bump = BumpNew
    /\ head = <<>>
    /\ mem = MemNew
    /\ live = EmptyBag
    /\ last = NoCall
    /\ cyc = NoCycle
    /\ panicked = FALSE
    /\ fsb = FsbNew
    /\ \E x \in PureXs, align \in PureAligns :
          pf = Apply("none", x, align, 0, FALSE)
    /\ lk = LockedNew
    /\ ih = InitHeapNotCalled
    /\ ex = ExecutorNew(<<>>)
    /\ vga = VgaNew(BlankBuffer)
    /\ pr = PrinterNew

\* align_up(addr, align) on a machine word and a power of two of the word.
\* addr + align - 1 beyond usize::MAX wraps in a build without overflow
\* checks and panics in a build with them.
ApplyAlignUp ==
    /\ pf.fn = "none"
    /\ pf.x <= USIZE_MAX /\ pf.align <= ISIZE_MAX + 1
    /\ \E checks \in BOOLEAN :
          pf' = Apply("align_up", pf.x, pf.align, align_up(pf.x, pf.align),
                      checks /\ pf.x + pf.align - 1 > USIZE_MAX)
    /\ UNCHANGED notPure

\* list_index(&layout)
ApplyListIndex ==
    /\ pf.fn = "none"
    /\ pf' = Apply("list_index", pf.x, pf.align,
                   list_index([size |-> pf.x, align |-> pf.align]), FALSE)
    /\ UNCHANGED notPure

\* LinkedListAllocator::size_align(layout) on a valid Layout
ApplySizeAlign ==
    /\ pf.fn = "none"
    /\ ValidLayout(pf.x, pf.align)
    /\ LET sa == size_align([size |-> pf.x, align |-> pf.align])
       IN  pf' = Apply("size_align", pf.x, pf.align,
                       [size |-> sa.size, align |-> sa.align], ~sa.ok)
    /\ UNCHANGED notPure

\* alloc(layout) on Locked::new(LinkedListAllocator::new()), before init
ApplyAllocNew ==
    /\ pf.fn = "none"
    /\ ValidLayout(pf.x, pf.align)
    /\ LET r == list_alloc(<<>>, [size |-> pf.x, align |-> pf.align])
       IN  pf' = Apply("alloc_new", pf.x, pf.align,
                       [ptr |-> r.ptr, list |-> r.list], r.res = "panic")
    /\ UNCHANGED notPure

NextPure ==
    \/ ApplyAlignUp
    \/ ApplyListIndex
    \/ ApplySizeAlign
    \/ ApplyAllocNew

SpecPure == InitPure /\ [][NextPure]_vars

----------------------------------------------------------------------------
(* The contexts calling the allocator behind ALLOCATOR through Locked *)

InitLocked ==
    /\ which \in {"bump", "linked_list", "fixed_size_block"}
    /\ inited = FALSE
    /\ bump = BumpNew
    /\ head = <<>>
    /\ mem = MemNew
    /\ live = EmptyBag
    /\ last = NoCall
    /\ cyc = NoCycle
    /\ panicked = FALSE
    /\ fsb = FsbNew
    /\ pf = NoApply
    /\ lk = LockedNew
    /\ ih = InitHeapNotCalled
    /\ ex = ExecutorNew(<<>>)
    /\ vga = VgaNew(BlankBuffer)
    /\ pr = PrinterNew

\* a context enters init_heap's ALLOCATOR.lock().init, alloc or dealloc
LkCall(c, op) ==
    /\ lk.pc[c] = 0
    /\ op \in OpsOf(which)
    /\ \A d \in Ctxs : StepOf(d) # "panic"
    /\ lk' = [lk EXCEPT !.op[c] = op, !.pc[c] = 1, !.touch = 0,
                        !.acquired[c] = 0, !.returned = "none"]
    /\ UNCHANGED notLocked

\* a step on no allocator state: size_align, checked_add, list_index
LkPure(c) ==
    /\ StepOf(c) = "pure"
    /\ lk' = [lk EXCEPT !.pc[c] = @ + 1, !.touch = 0, !.returned = "none"]
    /\ UNCHANGED notLocked

\* self.lock(): the context spins until its compare-and-swap succeeds
LkLock(c) ==
    /\ StepOf(c) = "lock"
    /\ lock(lk.locked).acquired
    /\ lk' = [lk EXCEPT !.locked = lock(lk.locked).locked, !.holder = c,
                        !.pc[c] = @ + 1, !.touch = 0,
                        !.acquired[c] = @ + 1, !.returned = "none"]
    /\ UNCHANGED notLocked

\* a read or a write of the wrapped allocator: init, find_region,
\* add_free_region, next, heap_end, allocations, list_heads, fallback_alloc
LkAccess(c) ==
    /\ StepOf(c) = "access"
    /\ lk' = [lk EXCEPT !.pc[c] = @ + 1, !.touch = c, !.returned = "none"]
    /\ UNCHANGED notLocked

\* the MutexGuard goes out of scope and the call returns
LkUnlock(c) ==
    /\ StepOf(c) = "unlock"
    /\ lk' = [lk EXCEPT !.locked = unlock(lk.locked),
                        !.holder = IF unlock(lk.locked) THEN @ ELSE 0,
                        !.op[c] = "none", !.pc[c] = 0, !.touch = 0,
                        !.returned = lk.op[c]]
    /\ UNCHANGED notLocked

NextLocked ==
    \E c \in Ctxs :
        \/ \E op \in LockedOps : LkCall(c, op)
        \/ LkPure(c)
        \/ LkLock(c)
        \/ LkAccess(c)
        \/ LkUnlock(c)

SpecLocked == InitLocked /\ [][NextLocked]_vars

----------------------------------------------------------------------------
(* init_heap, called once by kernel_main *)

InitInitHeap ==
    /\ which = "linked_list"
    /\ inited = FALSE
    /\ bump = BumpNew
    /\ head = <<>>
    /\ mem = MemNew
    /\ live = EmptyBag
    /\ last = NoCall
    /\ cyc = NoCycle
    /\ panicked = FALSE
    /\ fsb = FsbNew
    /\ pf = NoApply
    /\ lk = LockedNew
    /\ \E usable \in 0..MaxFrames :
          ih = InitHeapState("frame", containing_address(HEAP_START), {}, 0, usable,
                             "none", 0, {})
    /\ ex = ExecutorNew(<<>>)
    /\ vga = VgaNew(BlankBuffer)
    /\ pr = PrinterNew

\* frame_allocator.allocate_frame().ok_or(MapToError::FrameAllocationFailed)?
IhAllocateFrame ==
    /\ ih.pc = "frame"
    /\ LET f == allocate_frame(ih.next, ih.usable, 1)
           r == IF f.some THEN "ok" ELSE "FrameAllocationFailed"
       IN  ih' = IF question_mark(r)
                 THEN [ih EXCEPT !.next = f.next, !.pc = "done", !.result = r]
                 ELSE [ih EXCEPT !.next = f.next, !.pc = "map"]
    /\ UNCHANGED <<inited, head, last, panicked, mem>>
    /\ UNCHANGED notInitHeap

\* mapper.map_to(page, frame, flags, frame_allocator)?.flush(): the mapper
\* finds the page mapped or under a huge page, or creates up to `tables`
\* page tables with frames of the frame allocator and maps the page
IhMapTo(found, tables) ==
    /\ ih.pc = "map"
    /\ LET f == allocate_frame(ih.next, ih.usable, tables)
           r == IF found # "ok" THEN found
                ELSE IF f.some THEN "ok" ELSE "FrameAllocationFailed"
           next == IF found # "ok" THEN ih.next ELSE f.next
           last_page == ih.page = containing_address(HEAP_START + HEAP_SIZE - 1)
       IN  ih' = IF question_mark(r)
                 THEN [ih EXCEPT !.next = next, !.pc = "done", !.result = r]
                 ELSE [ih EXCEPT !.next = next,
                                 !.mapped = IF r = "ok" THEN @ \cup {ih.page} ELSE @,
                                 !.page = IF last_page THEN @ ELSE @ + 1,
                                 !.pc = IF last_page THEN "init" ELSE "frame"]
    /\ UNCHANGED <<inited, head, last, panicked, mem>>
    /\ UNCHANGED notInitHeap

\* ALLOCATOR.lock().init(HEAP_START, HEAP_SIZE)
IhInit ==
    /\ ih.pc = "init"
    /\ ih' = [ih EXCEPT !.pc = "return", !.inits = @ + 1, !.mappedAtInit = ih.mapped]
    /\ inited' = TRUE
    /\ IF add_free_region_ok(HEAP_START, HEAP_SIZE)
       THEN /\ head' = add_free_region(head, HEAP_START, HEAP_SIZE)
            /\ mem' = mem_add_free_region(mem, HEAP_START, HEAP_SIZE)
            /\ panicked' = FALSE
       ELSE head' = head /\ mem' = mem /\ panicked' = TRUE
    /\ last' = Call("init", NoLayout, null_mut, "ok")
    /\ UNCHANGED notInitHeap

\* Ok(())
IhReturn ==
    /\ ih.pc = "return"
    /\ ih' = [ih EXCEPT !.pc = "done", !.result = "Ok"]
    /\ UNCHANGED <<inited, head, last, panicked, mem>>
    /\ UNCHANGED notInitHeap

NextInitHeap ==
    \/ IhAllocateFrame
    \/ \E found \in {"ok", "ParentEntryHugePage", "PageAlreadyMapped"},
          tables \in 0..MaxTableFrames : IhMapTo(found, tables)
    \/ IhInit
    \/ IhReturn

SpecInitHeap == InitInitHeap /\ [][NextInitHeap]_vars

----------------------------------------------------------------------------
(* Executor::run on one CPU, with interrupts *)

\* the orders in which the tasks may have been spawned
SpawnOrders ==
    {q \in [1..NTasks -> TaskIds] : \A i, j \in 1..NTasks : q[i] = q[j] => i = j}

InitExec ==
    /\ which = "linked_list"
    /\ inited = FALSE
    /\ bump = BumpNew
    /\ head = <<>>
    /\ mem = MemNew
    /\ live = EmptyBag
    /\ last = NoCall
    /\ cyc = NoCycle
    /\ panicked = FALSE
    /\ fsb = FsbNew
    /\ pf = NoApply
    /\ lk = LockedNew
    /\ ih = InitHeapNotCalled
    /\ \E order \in SpawnOrders : ex = ExecutorNew(order)
    /\ vga = VgaNew(BlankBuffer)
    /\ pr = PrinterNew

\* the main flow can take a step: no handler spins, nothing has panicked
MainRuns == ~ex.stuck /\ ~ex.panic

\* a step of the main flow, which ends what a handler was seen doing
MainStep(e) ==
    /\ ex' = [e EXCEPT !.handler = "none"]
    /\ UNCHANGED notExec

\* run_ready_tasks: task_queue.pop(), tasks.get_mut, the waker_cache entry
ExPop ==
    /\ MainRuns /\ ex.pc = "pop"
    /\ IF is_empty(ex.task_queue)
       THEN MainStep([ex EXCEPT !.pc = "sleep_if_idle", !.task_id = 0])
       ELSE LET task_id == Head(ex.task_queue)
                popped == [ex EXCEPT !.task_queue = Tail(@)]
            IN  IF task_id \notin ex.tasks
                THEN MainStep(task_not_found(popped, task_id))
                ELSE IF task_id \in ex.waker_cache
                THEN MainStep([popped EXCEPT !.pc = "poll", !.task_id = task_id])
                ELSE MainStep([popped EXCEPT !.pc = "new_waker", !.task_id = task_id,
                                             !.alloc_lock = "main"])

\* TaskWaker::new: the Arc is allocated and the waker put in the cache
ExNewWaker ==
    /\ MainRuns /\ ex.pc = "new_waker"
    /\ MainStep([ex EXCEPT !.rc[ex.task_id] = 1,
                           !.created[ex.task_id] = @ + 1,
                           !.waker_cache = @ \cup {ex.task_id},
                           !.alloc_lock = "free",
                           !.pc = "poll"])

\* task.poll(&mut context): print_keypresses goes to its stream (created at
\* the first poll), any other task is Ready
ExPoll ==
    /\ MainRuns /\ ex.pc = "poll"
    /\ IF ex.task_id = KEYBOARD_TASK
       THEN MainStep([ex EXCEPT !.SCANCODE_QUEUE.init = TRUE, !.pc = "poll_next"])
       ELSE MainStep([ex EXCEPT !.pc = "remove", !.alloc_lock = "main"])

\* ScancodeStream::poll_next, the first queue.pop(): a scancode is printed and
\* the stream is asked again
ExPollNext ==
    /\ MainRuns /\ ex.pc = "poll_next"
    /\ IF ex.SCANCODE_QUEUE.len > 0
       THEN MainStep([ex EXCEPT !.SCANCODE_QUEUE.len = @ - 1])
       ELSE MainStep([ex EXCEPT !.pc = "register"])

\* WAKER.register(&cx.waker())
ExRegister ==
    /\ MainRuns /\ ex.pc = "register"
    /\ MainStep([waker_register(ex, ex.task_id) EXCEPT !.pc = "pop2"])

\* the second queue.pop(): WAKER.take() and Ready, or Pending
ExPop2 ==
    /\ MainRuns /\ ex.pc = "pop2"
    /\ IF ex.SCANCODE_QUEUE.len > 0
       THEN MainStep([waker_take(ex) EXCEPT !.SCANCODE_QUEUE.len = @ - 1,
                                            !.pc = "poll_next"])
       ELSE MainStep(poll_pending(ex))

\* Poll::Ready: tasks.remove and waker_cache.remove
ExRemove ==
    /\ MainRuns /\ ex.pc = "remove"
    /\ MainStep(poll_ready(ex))

\* sleep_if_idle: the first task_queue.is_empty()
ExSleepIfIdle ==
    /\ MainRuns /\ ex.pc = "sleep_if_idle"
    /\ IF is_empty(ex.task_queue)
       THEN MainStep([ex EXCEPT !.pc = "disable"])
       ELSE MainStep([ex EXCEPT !.pc = "pop"])

\* interrupts::disable()
ExDisable ==
    /\ MainRuns /\ ex.pc = "disable"
    /\ MainStep([ex EXCEPT !.interrupts = FALSE, !.pc = "recheck"])

\* the second task_queue.is_empty(), enable_and_hlt() or interrupts::enable()
ExRecheck ==
    /\ MainRuns /\ ex.pc = "recheck"
    /\ MainStep(sleep_if_idle_recheck(ex))

\* an interrupt has ended the hlt: sleep_if_idle returns
ExResume ==
    /\ MainRuns /\ ex.pc = "hlt" /\ ~ex.halted
    /\ MainStep([ex EXCEPT !.pc = "pop"])

Main ==
    \/ ExPop \/ ExNewWaker \/ ExPoll \/ ExPollNext \/ ExRegister \/ ExPop2
    \/ ExRemove \/ ExSleepIfIdle \/ ExDisable \/ ExRecheck \/ ExResume

\* an interrupt can be delivered
Interruptible ==
    /\ MainRuns /\ ex.interrupts /\ ex.nint < MaxInterrupts

\* a handler ran to its end on top of the main flow, and ends a hlt
Handled(e, name) ==
    /\ ex' = [e EXCEPT !.halted = FALSE, !.nint = ex.nint + 1, !.handler = name]
    /\ UNCHANGED notExec

\* timer_interrupt_handler: print!(".") and the end-of-interrupt
TimerInterrupt ==
    /\ Interruptible
    /\ Handled(ex, "timer")

\* keyboard_interrupt_handler: the scancode is read from the port, decoded by
\* KEYBOARD and printed; the end-of-interrupt
KeyboardInterrupt ==
    /\ Interruptible
    /\ Handled(ex, "keyboard")

\* add_scancode, in the keyboard interrupt
AddScancode ==
    /\ Interruptible
    /\ Handled(add_scancode(ex),
               IF ex.SCANCODE_QUEUE.init /\ ex.WAKER # 0 THEN "add_scancode_wake"
               ELSE "add_scancode")

\* breakpoint_handler: println! of the stack frame, after an int3 of the
\* main flow
Breakpoint ==
    /\ MainRuns /\ ~ex.halted /\ ex.nint < MaxInterrupts
    /\ ex' = [ex EXCEPT !.nint = @ + 1, !.handler = "breakpoint"]
    /\ UNCHANGED notExec

\* double_fault_handler: panic!, which never returns
DoubleFault ==
    /\ MainRuns /\ ~ex.halted /\ ex.nint < MaxInterrupts
    /\ ex' = [ex EXCEPT !.nint = @ + 1, !.handler = "double_fault", !.panic = TRUE]
    /\ UNCHANGED notExec

NextExec ==
    \/ Main
    \/ TimerInterrupt
    \/ KeyboardInterrupt
    \/ AddScancode
    \/ Breakpoint
    \/ DoubleFault

SpecExec == InitExec /\ [][NextExec]_vars

\* the main flow keeps running whenever it can
SpecExecFair == SpecExec /\ WF_vars(Main)

\* The same machine with a task_queue that has room for exactly as many ids
\* as there are tasks: the case of 100 tasks on the queue of 100, scaled to
\* NTasks.
InitExecTight ==
    /\ which = "linked_list"
    /\ inited = FALSE
    /\ bump = BumpNew
    /\ head = <<>>
    /\ mem = MemNew
    /\ live = EmptyBag
    /\ last = NoCall
    /\ cyc = NoCycle
    /\ panicked = FALSE
    /\ fsb = FsbNew
    /\ pf = NoApply
    /\ lk = LockedNew
    /\ ih = InitHeapNotCalled
    /\ \E order \in SpawnOrders :
          ex = [ExecutorNew(order) EXCEPT !.task_queue_capacity = NTasks]
    /\ vga = VgaNew(BlankBuffer)
    /\ pr = PrinterNew

SpecExecTight == InitExecTight /\ [][NextExec]_vars

\* task.poll(&mut context) of a task that is any future: it may wake itself
\* through the waker of its context, and returns Ready or Pending (Ready
\* without a wake-up is ExPoll)
ExPollAny ==
    /\ MainRuns /\ ex.pc = "poll" /\ ex.task_id # KEYBOARD_TASK
    /\ \E wakes, ready \in BOOLEAN :
          /\ wakes \/ ~ready
          /\ LET e == IF wakes THEN wake_by_ref(ex, ex.task_id) ELSE ex
             IN  IF e.panic THEN MainStep(e)
                 ELSE IF ready
                 THEN MainStep([e EXCEPT !.pc = "remove", !.alloc_lock = "main"])
                 ELSE MainStep(poll_pending(e))

NextExecAny ==
    \/ NextExec
    \/ ExPollAny

\* The executor with print_keypresses and tasks that are any future
SpecExecAny == InitExec /\ [][NextExecAny]_vars

----------------------------------------------------------------------------
(* The Writer, written to by the kernel and by test_println_output *)

InitVga ==
    /\ which = "none"
    /\ inited = FALSE
    /\ bump = BumpNew
    /\ head = <<>>
    /\ mem = MemNew
    /\ live = EmptyBag
    /\ last = NoCall
    /\ cyc = NoCycle
    /\ panicked = FALSE
    /\ fsb = FsbNew
    /\ pf = NoApply
    /\ lk = LockedNew
    /\ ih = InitHeapNotCalled
    /\ ex = ExecutorNew(<<>>)
    /\ pr = PrinterNew
    /\ \E chars \in [0..(BUFFER_HEIGHT - 1) -> {BlankRow, StaleRow}] :
          vga = VgaNew(chars)

\* Writer::write_byte
VgaWriteByte(byte) ==
    /\ vga.n < MaxWrites
    /\ vga.last.op # "test_println_output"
    /\ vga' = [writer |-> write_byte(vga.writer, byte),
               n |-> vga.n + 1,
               last |-> [op |-> "write_byte", s |-> <<byte>>]]
    /\ UNCHANGED notVga

\* Writer::write_str, which is write_string
VgaWriteStr(s) ==
    /\ vga.n < MaxWrites
    /\ vga.last.op # "test_println_output"
    /\ vga' = [writer |-> write_string(vga.writer, s),
               n |-> vga.n + 1,
               last |-> [op |-> "write_str", s |-> s]]
    /\ UNCHANGED notVga

\* test_println_output: writeln!(writer, "\n{}", s) under the lock of WRITER,
\* with the interrupts off; the test reads the buffer back and ends
VgaTestPrintlnOutput(s) ==
    /\ vga.n < MaxWrites
    /\ vga.last.op # "test_println_output"
    /\ vga' = [writer |-> writeln_newline_then(vga.writer, s),
               n |-> vga.n + 1,
               last |-> [op |-> "test_println_output", s |-> s]]
    /\ UNCHANGED notVga

NextVga ==
    \/ \E byte \in VgaBytes : VgaWriteByte(byte)
    \/ \E s \in VgaShortStrings : VgaWriteStr(s)
    \/ \E s \in VgaStrings : VgaTestPrintlnOutput(s)

SpecVga == InitVga /\ [][NextVga]_vars

----------------------------------------------------------------------------
(* Ranges *)

\* [p1, p1 + n1) and [p2, p2 + n2) share a byte
Overlap(p1, n1, p2, n2) == p1 < p2 + n2 /\ p2 < p1 + n1
\* [p, p + n) lies in the heap
InHeap(p, n) == HEAP_START <= p /\ p + n <= HEAP_END
HeapBytes == HEAP_START..(HEAP_END - 1)
LiveSet == BagToSet(live)
IsBump == which = "bump"
IsList == which = "linked_list"

\* the regions of the free list that hold byte x
FreeAt(x) == {i \in 1..Len(head) : start_addr(head[i]) <= x /\ x < end_addr(head[i])}
\* the live allocations whose size_align-adjusted range holds byte x
LiveAt(x) == {a \in LiveSet : a.ptr <= x /\ x < a.ptr + size_align(a.layout).size}

----------------------------------------------------------------------------
(* The claims *)

\* C1: with the free-list allocator, no alloc call panics: alloc returns an
\* address or null, and the assertions of add_free_region hold when the
\* leftover of a split region is put back.
C1_AllocNeverPanics == ~(IsList /\ last.op = "alloc" /\ last.res = "panic")

\* C2: with the free-list allocator, every byte of the heap is inside the
\* adjusted range of a live allocation or inside exactly one free region.
C2_NoByteLost ==
    (IsList /\ inited /\ ~panicked) =>
        \A x \in HeapBytes :
            \/ LiveAt(x) # {}
            \/ Cardinality(FreeAt(x)) = 1

\* C3: every non-null address alloc returns (bump or free-list) is a
\* multiple of the alignment of the layout it was asked for.
C3_ReturnedAddressAligned ==
    (last.op = "alloc" /\ last.ptr # null_mut) => last.ptr % last.layout.align = 0

\* C3 witness: an alloc with alignment 16 returned an address above a live
\* allocation that ends off a 16-byte boundary.
C3_Witness ==
    /\ last.op = "alloc" /\ last.ptr # null_mut /\ last.layout.align = 16
    /\ \E a \in LiveSet : a.ptr < last.ptr /\ (a.ptr + a.layout.size) % 16 # 0

\* C4: the ranges [address, address + size) of the allocations alive (which
\* hold every run of successful allocs with no dealloc in between) are
\* pairwise disjoint, none was handed out twice, and each lies in the heap.
C4_LiveRangesDisjoint ==
    /\ \A a \in LiveSet :
        /\ CopiesIn(a, live) = 1
        /\ InHeap(a.ptr, a.layout.size)
    /\ \A a, b \in LiveSet :
        a # b => ~Overlap(a.ptr, a.layout.size, b.ptr, b.layout.size)

\* C4 witness: two allocations are alive, the second just returned.
C4_Witness ==
    /\ last.op = "alloc" /\ last.ptr # null_mut
    /\ BagCardinality(live) >= 2

\* C5: with the free-list allocator, every node lies in the heap, is at
\* least a node header long, overlaps no other node and no live allocation.
C5_FreeListInvariant ==
    IsList =>
        /\ \A i \in 1..Len(head) :
            /\ InHeap(start_addr(head[i]), head[i].size)
            /\ head[i].size >= SIZE_OF_LISTNODE
            /\ \A a \in LiveSet :
                ~Overlap(start_addr(head[i]), head[i].size,
                         a.ptr, size_align(a.layout).size)
        /\ \A i, j \in 1..Len(head) :
            i # j => ~Overlap(start_addr(head[i]), head[i].size,
                              start_addr(head[j]), head[j].size)

\* C5 witness: a dealloc left two nodes on the list beside a live allocation.
C5_Witness ==
    /\ IsList /\ last.op = "dealloc" /\ ~panicked
    /\ Len(head) >= 2 /\ LiveSet # {}

\* C6: with the free-list allocator, alloc(L) = p; dealloc(p, L); alloc(L)
\* with nothing in between: the second alloc succeeds and returns p.
C6_RoundTripSameAddress ==
    (cyc.phase \in {"held", "failed"} /\ cyc.n = 1) =>
        (cyc.phase = "held" /\ cyc.ptr = cyc.first)

\* C6 witness: the second alloc of a round trip has returned, from a list
\* that held more than the freed region.
C6_Witness ==
    /\ cyc.phase = "held" /\ cyc.n = 1 /\ last.op = "alloc"
    /\ Len(head) >= 1 /\ cyc.first # HEAP_START

\* C7: with the free-list allocator, in a loop of alloc(L); dealloc(p, L)
\* every alloc after the first succeeds, and the free list after each cycle
\* is the list after the first cycle.
C7_CycleNeverExhausts ==
    /\ cyc.phase # "failed"
    /\ cyc.phase = "freed" => head = cyc.snap

\* C7 witness: the loop has completed MaxCycles cycles.
C7_Witness == cyc.phase = "freed" /\ cyc.n = MaxCycles /\ MaxCycles >= 2

\* C8: with the bump allocator, once every allocation made has been freed,
\* next is heap_start, allocations is 0, and an alloc of the whole heap, with
\* an alignment heap_start satisfies, succeeds.
C8_BumpReset ==
    (IsBump /\ inited /\ last.op = "dealloc" /\ live = EmptyBag) =>
        /\ bump.next = bump.heap_start
        /\ bump.allocations = 0
        /\ \A align \in Aligns :
            bump.heap_start % align = 0 =>
                bump_alloc(bump, [size |-> HEAP_SIZE, align |-> align]).ptr
                    = bump.heap_start

\* C8 witness: the last of the live allocations was just freed.
C8_Witness == IsBump /\ inited /\ last.op = "dealloc" /\ live = EmptyBag

\* whether a request of `layout` exceeds what is left, before the call
ExceedsCapacity(layout) ==
    IF IsBump
    THEN LET s == align_up_reference(bump.next, layout.align)
         IN  s > bump.heap_end \/ layout.size > bump.heap_end - s
    ELSE \A i \in 1..Len(head) :
            LET s == align_up_reference(start_addr(head[i]), size_align(layout).align)
            IN  s > end_addr(head[i]) \/ layout.size > end_addr(head[i]) - s

C10_BumpNextInBounds ==
    IsBump => (bump.heap_start <= bump.next /\ bump.next <= bump.heap_end)

\* C10 witness: an alloc failed on a heap that next had already moved into.
C10_Witness ==
    /\ IsBump /\ inited /\ last.op = "alloc" /\ last.res = "null"
    /\ bump.next > bump.heap_start

----------------------------------------------------------------------------
(* Claims about the fixed-size-block allocator, checked under SpecFsb *)

\* the class of a request by the words of the interface: the first entry of
\* BLOCK_SIZES that is at least max(size, align); 0 when there is none
ClassOf(layout) ==
    LET req == Max(layout.size, layout.align)
    IN  IF req > LARGEST_BLOCK THEN 0
        ELSE CHOOSE i \in 1..Len(BLOCK_SIZES) :
                /\ BLOCK_SIZES[i] >= req
                /\ \A j \in 1..(i - 1) : BLOCK_SIZES[j] < req

\* C11: an alloc whose max(size, align) exceeds 2048 goes to the fallback with
\* its layout unchanged and touches no class list; an alloc of class i pops the
\* head of list i whenever that list is non-empty, and asks the fallback, with
\* the layout (BLOCK_SIZES[i], BLOCK_SIZES[i]), only when list i is empty.
C11_AllocPath ==
    [][last'.op = "alloc" =>
        LET L == last'.layout
            i == ClassOf(L)
        IN  IF i = 0
            THEN /\ last'.path = "fallback"
                 /\ last'.passed = L
                 /\ fsb'.list_heads = fsb.list_heads
            ELSE IF fsb.list_heads[i] # <<>>
            THEN /\ last'.path = "list"
                 /\ last'.ptr = Head(fsb.list_heads[i])
                 /\ fsb'.list_heads = [fsb.list_heads EXCEPT ![i] = Tail(@)]
                 /\ fsb'.fallback_allocator = fsb.fallback_allocator
            ELSE /\ last'.path = "fallback"
                 /\ last'.passed = [size |-> BLOCK_SIZES[i], align |-> BLOCK_SIZES[i]]
                 /\ fsb'.list_heads = fsb.list_heads]_vars

\* a block was popped from a class list while an oversized block, served by
\* the fallback, is outstanding
C11_Witness ==
    /\ last.op = "alloc" /\ last.path = "list" /\ last.res = "ok"
    /\ \E u \in fsb.fallback_allocator.used : u.size > LARGEST_BLOCK

\* C12: each class list is last-in first-out. dealloc(p, L) with L of class i
\* makes p the head of list i and leaves the rest of list i and every other
\* list as they were; the next alloc of any layout of class i returns p; and
\* alloc(L); dealloc(p, L); alloc(L) with nothing in between returns p again.
C12_ClassListLifo ==
    [][/\ (last'.op = "dealloc" /\ ClassOf(last'.layout) # 0) =>
            LET i == ClassOf(last'.layout)
                p == last'.ptr
            IN  /\ fsb'.list_heads = [fsb.list_heads EXCEPT ![i] = <<p>> \o @]
                /\ \A L2 \in FsbLayouts :
                      ClassOf(L2) = i => fsb_alloc(fsb', L2).ptr = p
       /\ (/\ last'.op = "alloc"
           /\ cyc'.phase \in {"held", "failed"}
           /\ cyc'.n >= 1
           /\ ClassOf(cyc'.layout) # 0) =>
            (cyc'.phase = "held" /\ cyc'.ptr = cyc'.first)]_vars

\* the block of a second round trip was pushed in front of another block of
\* its list, while another class list holds a block too
C12_Witness ==
    /\ last.op = "dealloc" /\ ClassOf(last.layout) # 0
    /\ cyc.phase = "freed" /\ cyc.n = 2
    /\ Len(fsb.list_heads[ClassOf(last.layout)]) >= 2
    /\ Head(fsb.list_heads[ClassOf(last.layout)]) = last.ptr
    /\ \E j \in 1..Len(BLOCK_SIZES) :
          j # ClassOf(last.layout) /\ fsb.list_heads[j] # <<>>


\* C13: every block on list i has size BLOCK_SIZES[i] and an address that is a
\* multiple of BLOCK_SIZES[i]; the class chosen for a layout is at least
\* max(size, align), so every address returned is aligned to layout.align and
\* backs at least layout.size bytes; no block is on two lists or twice on one.
C13_BlockInvariant ==
    /\ \A i \in 1..Len(BLOCK_SIZES) : \A k \in 1..Len(fsb.list_heads[i]) :
          LET b == fsb.list_heads[i][k]
          IN  /\ b % BLOCK_SIZES[i] = 0
              /\ \E u \in fsb.fallback_allocator.used :
                    u.ptr = b /\ u.size = BLOCK_SIZES[i]
              /\ \A j \in 1..Len(BLOCK_SIZES) : \A m \in 1..Len(fsb.list_heads[j]) :
                    fsb.list_heads[j][m] = b => (j = i /\ m = k)
    /\ \A L \in FsbLayouts :
          list_index(L).some =>
              BLOCK_SIZES[list_index(L).val] >= Max(L.size, L.align)
    /\ \A a \in BagToSet(live) :
          /\ a.ptr % a.layout.align = 0
          /\ CopiesIn(a, live) = 1
          /\ \E u \in fsb.fallback_allocator.used :
                /\ u.ptr = a.ptr /\ u.size >= a.layout.size
                /\ FSB_HEAP_START <= u.ptr /\ u.ptr + u.size <= FSB_HEAP_END
                /\ list_index(a.layout).some =>
                      u.size = BLOCK_SIZES[list_index(a.layout).val]

\* a list holds two blocks, another list holds one, and a block asked for
\* with an alignment above its size is live
C13_Witness ==
    /\ \E i, j \in 1..Len(BLOCK_SIZES) :
          i # j /\ Len(fsb.list_heads[i]) >= 2 /\ Len(fsb.list_heads[j]) >= 1
    /\ \E a \in BagToSet(live) : a.layout.align > a.layout.size

----------------------------------------------------------------------------
(* Claims about the functions without state, checked under SpecPure *)

\* C14: list_index returns the index of the first entry of BLOCK_SIZES that
\* is at least max(size, align), and None exactly when max(size, align)
\* exceeds 2048; the result depends on the layout alone. (Indices count from 1
\* here.)
C14_ListIndex ==
    pf.fn = "list_index" =>
        LET req == IF pf.x >= pf.align THEN pf.x ELSE pf.align
        IN  /\ ~pf.panic
            /\ pf.out.some <=> req <= 2048
            /\ pf.out.some =>
                  /\ pf.out.val \in 1..Len(BLOCK_SIZES)
                  /\ BLOCK_SIZES[pf.out.val] >= req
                  /\ \A j \in 1..(pf.out.val - 1) : BLOCK_SIZES[j] < req

\* list_index chose a class above the smallest by the alignment of a layout
\* whose size alone would have fitted a smaller class
C14_Witness ==
    /\ pf.fn = "list_index" /\ pf.out.some
    /\ pf.align > pf.x /\ BLOCK_SIZES[pf.out.val] = pf.align
    /\ pf.out.val > 1

\* the result of align_up is the smallest multiple of align that is at least
\* addr, and is what the commented reference implementation computes
RoundsUp(addr, align, out) ==
    /\ out % align = 0
    /\ out >= addr
    /\ \A m \in addr..(out - 1) : m % align # 0
    /\ out = align_up_reference(addr, align)

C16_SizeAlign ==
    pf.fn = "size_align" =>
        /\ ~pf.panic
        /\ pf.out.align >= Max(pf.align, ALIGN_OF_LISTNODE)
        /\ pf.out.size >= Max(pf.x, SIZE_OF_LISTNODE)
        /\ pf.x >= SIZE_OF_LISTNODE => pf.out.size % pf.out.align = 0

\* C31: before init the list of the free-list allocator is empty, and every
\* alloc, for any layout, returns null and leaves the list empty.  (That the
\* list holds the one region (heap_start, heap_size) after init is
\* C31_AfterInit, which holds.)
C31_AllocBeforeInit ==
    pf.fn = "alloc_new" =>
        /\ ~pf.panic
        /\ pf.out.ptr = null_mut
        /\ pf.out.list = <<>>

\* after init(heap_start, heap_size) the list is the one region given, and
\* before it the list is empty
C31_AfterInit ==
    IsList =>
        /\ (~inited => head = <<>>)
        /\ (last.op = "init" /\ inited) => head = <<Node(HEAP_START, HEAP_SIZE)>>

----------------------------------------------------------------------------
(* Claims about Locked, checked under SpecLocked *)

\* the context is between its lock and the drop of its guard
HoldsGuard(c) ==
    lk.pc[c] > 0 /\ \E k \in 1..(lk.pc[c] - 1) : Prog(lk.op[c])[k] = "lock"

\* C17: every read or write of the wrapped allocator state happens while the
\* spin lock of Locked is held by the context that reads or writes, and at
\* most one context holds the lock at a time.
C17_AccessUnderLock ==
    /\ lk.touch # 0 => (lk.locked /\ lk.holder = lk.touch /\ HoldsGuard(lk.touch))
    /\ \A c, d \in Ctxs : (HoldsGuard(c) /\ HoldsGuard(d)) => c = d
    /\ \A c \in Ctxs : HoldsGuard(c) => (lk.locked /\ lk.holder = c)

\* a context has just touched the allocator while another one, past its
\* layout adjustment, spins on the lock
C17_Witness ==
    /\ lk.touch # 0
    /\ \E d \in Ctxs : d # lk.touch /\ StepOf(d) = "lock" /\ lk.op[d] = "dealloc"

----------------------------------------------------------------------------
(* Claims about init_heap, checked under SpecInitHeap *)

\* C19: init_heap calls the allocator's init exactly once, and only after
\* every page of the heap is mapped; if a frame allocation or map_to fails it
\* returns the error and init is never called.
C19_InitAfterMapping ==
    /\ ih.inits <= 1
    /\ inited <=> ih.inits = 1
    /\ ih.inits = 1 =>
          \A addr \in HEAP_START..(HEAP_END - 1) : addr \div PAGE_SIZE \in ih.mappedAtInit
    /\ ih.pc = "done" =>
          /\ ih.result = "Ok" <=> ih.inits = 1
          /\ ih.result # "Ok" => (ih.result \in MapToErrors /\ ~inited /\ head = <<>>)
          /\ ih.mapped # page_range => ih.result # "Ok"

\* init_heap returned Ok after the mapper took frames for page tables
C19_Witness ==
    /\ ih.pc = "done" /\ ih.result = "Ok" /\ inited
    /\ ih.next > Cardinality(page_range)
    /\ Cardinality(page_range) > 1

----------------------------------------------------------------------------
(* Claims about the interrupt handlers and the executor *)

\* C18: no interrupt handler (timer, keyboard, breakpoint, double fault, and
\* add_scancode as called from the keyboard interrupt) allocates on the heap
\* or asks for the allocator lock in any other way, so no handler ever spins
\* on the allocator lock while the interrupted main flow holds it.
C18_NoAllocInHandlers ==
    /\ ~ex.int_alloc
    /\ ~ex.stuck

\* add_scancode woke the keyboard task, and dropped the waker it took from
\* WAKER, on top of a main flow that was inside the allocator
C18_Witness ==
    /\ ex.handler = "add_scancode_wake"
    /\ ex.alloc_lock = "main"
    /\ ex.WAKER = 0 /\ ex.rc[KEYBOARD_TASK] >= 1

\* C20: the CPU is never halted while task_queue is non-empty, so a wake-up
\* pushed by an interrupt at any point of sleep_if_idle is not missed; and,
\* the main flow running whenever it can, every task id in task_queue is
\* eventually popped and its task polled (unless the kernel has panicked).
C20_NoLostWakeup ==
    /\ [](ex.halted => is_empty(ex.task_queue))
    /\ \A t \in TaskIds :
          (\E i \in 1..Len(ex.task_queue) : ex.task_queue[i] = t)
              ~> ((ex.pc = "poll" /\ ex.task_id = t) \/ ex.panic)

\* an interrupt pushed a wake-up between the first look at the queue and
\* interrupts::disable(): the second look, about to be taken, finds it
C20_Witness ==
    /\ ex.pc = "recheck" /\ ~ex.interrupts
    /\ ~is_empty(ex.task_queue)
    /\ ex.nint >= 1 /\ ex.WAKER = 0

\* the keyboard task is asleep in state e: it is not being polled, and no
\* wake-up of it waits in task_queue
Asleep(e) ==
    /\ e.task_id # KEYBOARD_TASK
    /\ \A i \in 1..Len(e.task_queue) : e.task_queue[i] # KEYBOARD_TASK

\* C21: for every interleaving of add_scancode (in an interrupt) with
\* poll_next, no wake-up is lost. When poll_next returns Pending, the queue
\* was empty at its second pop and the waker of the task is registered; a
\* successful add_scancode that finds the task asleep wakes it; and a pushed
\* scancode is never in the queue with the task asleep and no wake-up pending.
C21_NoLostScancode ==
    [][/\ (ex.pc = "pop2" /\ ex'.pc = "pop") =>
            (ex.SCANCODE_QUEUE.len = 0 /\ ex'.WAKER = KEYBOARD_TASK)
       /\ (ex'.SCANCODE_QUEUE.len > ex.SCANCODE_QUEUE.len /\ Asleep(ex)) =>
            ~Asleep(ex')
       /\ ex'.SCANCODE_QUEUE.len > 0 => ~Asleep(ex')]_vars

\* add_scancode pushed a scancode and woke the task, which had returned
\* Pending and was asleep
C21_Witness ==
    /\ ex.handler = "add_scancode_wake"
    /\ ex.SCANCODE_QUEUE.len > 0
    /\ ex.task_id # KEYBOARD_TASK
    /\ \E i \in 1..Len(ex.task_queue) : ex.task_queue[i] = KEYBOARD_TASK
    /\ ex.WAKER = 0

----------------------------------------------------------------------------
(* Claims about the VGA Writer, checked under SpecVga *)

Printable(s) == \A i \in 1..Len(s) : s[i] \in PRINTABLE_MIN..PRINTABLE_MAX

\* C22: in any state of the Writer, after a newline, a string s of printable
\* ASCII without a newline and of at most BUFFER_WIDTH bytes, and a newline
\* have been written, row BUFFER_HEIGHT-2 holds the characters of s in
\* columns 0..len(s)-1, in order.
C22_PrintlnOutput ==
    (/\ vga.last.op = "test_println_output"
     /\ Printable(vga.last.s)
     /\ Len(vga.last.s) <= BUFFER_WIDTH)
    => \A i \in 1..Len(vga.last.s) :
          vga.writer.chars[BUFFER_HEIGHT - 2][i - 1] = vga.last.s[i]

\* a string that fills the row, of distinct letters, printed after other
\* writes, stands in row BUFFER_HEIGHT-2
C22_Witness ==
    /\ vga.last.op = "test_println_output"
    /\ Printable(vga.last.s)
    /\ Len(vga.last.s) = BUFFER_WIDTH
    /\ vga.last.s[1] # vga.last.s[BUFFER_WIDTH]
    /\ vga.n >= 2
    /\ \A i \in 1..BUFFER_WIDTH :
          vga.writer.chars[BUFFER_HEIGHT - 2][i - 1] = vga.last.s[i]

----------------------------------------------------------------------------
(* Claims about the free-list and the bump allocator, checked under Spec *)

\* what is left of a region behind an allocation placed in it
ExcessSize(region, size, align) ==
    end_addr(region) - (alloc_from_region(region, size, align).alloc_start + size)

\* C23: alloc_from_region accepts a region only if the allocation fits it
\* perfectly (excess size 0) or the part left behind the allocation can hold
\* a ListNode; any other region is reported unsuitable.  Stated for every
\* region on the free list and every request alloc can pass on.
C23_AcceptsOnlyWithRoom ==
    IsList =>
        \A i \in 1..Len(head), layout \in Layouts :
            LET sa == size_align(layout)
            IN  (sa.ok /\ alloc_from_region(head[i], sa.size, sa.align).ok) =>
                    \/ ExcessSize(head[i], sa.size, sa.align) = 0
                    \/ ExcessSize(head[i], sa.size, sa.align) >= SIZE_OF_LISTNODE

\* a node find_region may take, in the words of the claim
Suitable(node, size, align) ==
    /\ align_up(node.start, align) + size <= USIZE_MAX
    /\ align_up(node.start, align) + size <= node.start + node.size

SuitableIn(list, layout) ==
    {i \in 1..Len(list) :
        Suitable(list[i], size_align(layout).size, size_align(layout).align)}

FirstIn(S) == CHOOSE i \in S : \A j \in S : i <= j

\* a step of alloc on the free-list allocator that gets as far as find_region
CallsFindRegion ==
    /\ IsList /\ ~panicked
    /\ last'.op = "alloc" /\ vars' # vars
    /\ size_align(last'.layout).ok

\* C24: find_region is first-fit.  It takes the first node in list order for
\* which align_up(node.start, align) + size does not overflow and is at most
\* node.end, unlinks that node alone and leaves the others in their order
\* (alloc then puts at most the leftover in front); it returns None, with the
\* list unchanged, exactly when no node is suitable.
C24_FirstFit ==
    [][CallsFindRegion =>
        LET S == SuitableIn(head, last'.layout)
            rest == Unlink(head, FirstIn(S))
        IN  IF S = {}
            THEN last'.res = "null" /\ head' = head
            ELSE /\ last'.res # "null"
                 /\ \/ head' = rest
                    \/ Len(head') = Len(rest) + 1 /\ Tail(head') = rest
                 /\ last'.res = "ok" =>
                        last'.ptr = align_up(head[FirstIn(S)].start,
                                             size_align(last'.layout).align)]_vars

\* C24 witness: an alloc has been served while the list it leaves still holds
\* a node that is too small for the request in front of one that is not.
C24_Witness ==
    /\ IsList /\ last.op = "alloc" /\ last.res = "ok"
    /\ \E j, k \in 1..Len(head) :
          /\ j < k
          /\ j \notin SuitableIn(head, last.layout)
          /\ k \in SuitableIn(head, last.layout)
          /\ head[k].start < last.ptr
          /\ head[j].start < last.ptr

\* C25: dealloc(p, L) on the free-list allocator adds exactly one node, with
\* start p and size size_align(L).size, at the front of the list, its next
\* being the previous first node; every other node keeps its start, its size
\* and its place, and no node is merged with a neighbour.
C25_DeallocPushesFront ==
    [][(IsList /\ ~panicked /\ last'.op = "dealloc" /\ vars' # vars) =>
        /\ last'.res = "ok"
        /\ Len(head') = Len(head) + 1
        /\ Head(head') = Node(last'.ptr, size_align(last'.layout).size)
        /\ Tail(head') = head]_vars

\* C25 witness: a dealloc has put a node in front of a list that holds the
\* region right behind it and the region right before it, as nodes of their own.
C25_Witness ==
    /\ IsList /\ last.op = "dealloc" /\ last.res = "ok"
    /\ Len(head) >= 3
    /\ head[1].start = last.ptr
    /\ \E j \in 2..Len(head) : head[j].start = end_addr(head[1])
    /\ \E k \in 2..Len(head) : end_addr(head[k]) = head[1].start

RECURSIVE TotalFree(_)
TotalFree(list) == IF list = <<>> THEN 0 ELSE Head(list).size + TotalFree(Tail(list))

\* C26: fragmentation is reachable.  The pieces of the heap (free regions and
\* live allocations) never become fewer, because dealloc never merges, and
\* an alloc whose adjusted size exceeds every single free region returns null
\* whatever the free bytes add up to; so there is a run of alloc and dealloc
\* calls after which nothing is live and the free bytes add up to S, yet
\* alloc of size S returns null (the witness).
C26_Fragmentation ==
    [][(IsList /\ ~panicked /\ ~panicked') =>
        /\ Len(head') + BagCardinality(live') >= Len(head) + BagCardinality(live)
        /\ (/\ last'.op = "alloc" /\ vars' # vars
            /\ size_align(last'.layout).ok
            /\ \A i \in 1..Len(head) : head[i].size < size_align(last'.layout).size)
           => last'.res = "null"]_vars

\* C26 witness: nothing is live, the free regions add up to the whole heap,
\* and an alloc of the size of the heap has just returned null.
C26_Witness ==
    /\ IsList /\ inited /\ ~panicked
    /\ NLive = 0
    /\ TotalFree(head) = HEAP_SIZE
    /\ last.op = "alloc" /\ last.res = "null" /\ last.ptr = null_mut
    /\ size_align(last.layout).size = HEAP_SIZE
    /\ Len(head) >= 2

\* C27: alloc on the bump allocator computes alloc_start = align_up(next,
\* align) and alloc_end = alloc_start + size; it returns null if the addition
\* overflows or alloc_end > heap_end; otherwise it sets next to alloc_end,
\* adds 1 to allocations and returns alloc_start.
C27_BumpAlloc ==
    [][(IsBump /\ last'.op = "alloc" /\ vars' # vars) =>
        LET alloc_start == align_up(bump.next, last'.layout.align)
            alloc_end == alloc_start + last'.layout.size
        IN  IF alloc_end > USIZE_MAX \/ alloc_end > bump.heap_end
            THEN last'.ptr = null_mut /\ last'.res = "null"
            ELSE /\ bump'.next = alloc_end
                 /\ bump'.allocations = bump.allocations + 1
                 /\ last'.ptr = alloc_start /\ last'.res = "ok"]_vars

\* C27 witness: an alloc has returned an address above the end of a live
\* allocation, rounded up to the alignment asked for, and next is its end.
C27_Witness ==
    /\ IsBump /\ last.op = "alloc" /\ last.res = "ok"
    /\ bump.next = last.ptr + last.layout.size
    /\ bump.allocations >= 2
    /\ \E a \in LiveSet :
          /\ a.ptr + a.layout.size < last.ptr
          /\ align_up(a.ptr + a.layout.size, last.layout.align) = last.ptr

\* C28: dealloc on the bump allocator takes exactly 1 off allocations and
\* leaves next, heap_start and heap_end alone unless the counter becomes 0
\* (next is then heap_start again); so as long as an allocation stays live
\* next never decreases, and no alloc returns an address below it: no freed
\* byte is handed out again.
C28_BumpDealloc ==
    [][IsBump =>
        /\ (last'.op = "dealloc" /\ vars' # vars) =>
              /\ bump'.allocations = bump.allocations - 1
              /\ bump'.heap_start = bump.heap_start
              /\ bump'.heap_end = bump.heap_end
              /\ bump'.next = IF bump'.allocations = 0 THEN bump.heap_start
                              ELSE bump.next
        /\ BagCardinality(live') >= 1 => bump'.next >= bump.next
        /\ (last'.op = "alloc" /\ vars' # vars /\ last'.res = "ok") =>
              last'.ptr >= bump.next]_vars

\* C28 witness: a dealloc has freed bytes below next while another
\* allocation is live, and next stands where it stood.
C28_Witness ==
    /\ IsBump /\ last.op = "dealloc"
    /\ bump.allocations >= 1 /\ NLive >= 1
    /\ last.ptr + last.layout.size <= bump.next
    /\ \E a \in LiveSet : a.ptr + a.layout.size = bump.next

\* C30: an alloc that fails, returning null, leaves the allocator as it was:
\* next and allocations of the bump allocator, the nodes of the free list
\* with their sizes and their order.
C30_FailedAllocChangesNothing ==
    [][(last'.op = "alloc" /\ vars' # vars /\ last'.res = "null") =>
        /\ last'.ptr = null_mut
        /\ bump' = bump
        /\ head' = head
        /\ live' = live]_vars

\* C30 witness: an alloc has returned null on a free list of two nodes or
\* more, with an allocation live.
C30_Witness ==
    /\ IsList /\ inited
    /\ last.op = "alloc" /\ last.res = "null"
    /\ Len(head) >= 2
    /\ NLive >= 1

\* the addresses reached from the dummy head by following next, for at most
\* as many steps as there are nodes, and whether None was reached
RECURSIVE ChainFrom(_, _, _)
ChainFrom(m, current, fuel) ==
    LET region == m.node[current].next
    IN  IF region = null_mut THEN [addrs |-> <<>>, ends |-> TRUE]
        ELSE IF fuel = 0 \/ region \notin DOMAIN m.node
        THEN [addrs |-> <<>>, ends |-> FALSE]
        ELSE LET rest == ChainFrom(m, region, fuel - 1)
             IN  [addrs |-> <<region>> \o rest.addrs, ends |-> rest.ends]

Chain == ChainFrom(mem, HEAD_ADDR, Cardinality(DOMAIN mem.node))

\* C32: after any sequence of alloc and dealloc calls the contract allows,
\* the free list as it lies in memory is a finite chain from the dummy head
\* to None without a cycle, in which no region appears twice, and it is the
\* list of the regions that are free; so the loop of find_region, and alloc
\* with it, has always come to an end.
C32_FreeListAcyclic ==
    IsList =>
        /\ Chain.ends
        /\ \A i, j \in 1..Len(Chain.addrs) :
              Chain.addrs[i] = Chain.addrs[j] => i = j
        /\ Len(Chain.addrs) = Len(head)
        /\ \A i \in 1..Len(head) :
              /\ Chain.addrs[i] = head[i].start
              /\ mem.node[head[i].start].size = head[i].size
        /\ ~mem.diverged

\* C32 witness: a region freed, allocated again and freed again heads a
\* chain of three nodes or more, and an alloc has since walked the chain to
\* its end without finding room.
C32_Witness ==
    /\ IsList /\ ~panicked
    /\ Len(Chain.addrs) >= 3 /\ Chain.ends
    /\ last.op = "alloc" /\ last.res = "null"

----------------------------------------------------------------------------
(* More claims about Locked, checked under SpecLocked *)

\* C29: every alloc and dealloc on a Locked bump, free-list or
\* fixed-size-block allocator acquires the lock at most once, and has
\* released it when it returns, on the paths that return null too: the lock
\* is only ever held by a context inside a call, past its lock(), and it is
\* free whenever no call is in progress.
C29_LockReleasedOnReturn ==
    /\ \A c \in Ctxs : lk.acquired[c] <= 1
    /\ lk.locked => (lk.holder \in Ctxs /\ HoldsGuard(lk.holder))
    /\ (\A c \in Ctxs : lk.pc[c] = 0) => ~lk.locked
    /\ lk.returned # "none" => \E c \in Ctxs : lk.pc[c] = 0 /\ lk.holder # c

\* C29 witness: a call has just returned on a path that yields null, the
\* lock is free, and the other context is about to take it.
C29_Witness ==
    /\ lk.returned \in NullPaths
    /\ ~lk.locked
    /\ \E d \in Ctxs : StepOf(d) = "lock" /\ lk.acquired[d] = 0

----------------------------------------------------------------------------
(* More claims about the fixed-size-block allocator, checked under SpecFsb *)

\* the blocks on list i
ListBlocks(f, i) == {f.list_heads[i][k] : k \in 1..Len(f.list_heads[i])}

\* the blocks of class i: on list i, or handed out for a layout of class i
ClassBlocks(f, lv, i) ==
    ListBlocks(f, i) \cup {a.ptr : a \in {b \in BagToSet(lv) : ClassOf(b.layout) = i}}

Classes == 1..Len(BLOCK_SIZES)

\* C33: a block taken from the fallback allocator for class i is never given
\* back to it: it stays a block of class i, on list i whenever it is not
\* handed out, so the blocks of a class never become fewer, and a block on
\* list i never serves a request of another class or an oversized request,
\* even when no allocation is live.
C33_BlocksStayInClass ==
    [][/\ \A i \in Classes :
            /\ ClassBlocks(fsb, live, i) \subseteq ClassBlocks(fsb', live', i)
            /\ \A p \in ClassBlocks(fsb', live', i) :
                  \E u \in fsb'.fallback_allocator.used :
                      u.ptr = p /\ u.size = BLOCK_SIZES[i]
       /\ (last'.op = "alloc" /\ vars' # vars /\ last'.ptr # null_mut) =>
            \A i \in Classes :
                i # ClassOf(last'.layout) => last'.ptr \notin ListBlocks(fsb, i)
       /\ (/\ last'.op = "alloc" /\ vars' # vars
           /\ ClassOf(last'.layout) \in Classes => fsb.list_heads[ClassOf(last'.layout)] = <<>>
           /\ ~heap_allocate_first_fit(fsb.fallback_allocator, last'.passed).ok)
          => last'.ptr = null_mut]_vars

\* C33 witness: nothing is live, the class lists hold at least the bytes
\* asked for, no block is on the list of the request's class, and the alloc
\* has returned null.
C33_Witness ==
    /\ inited /\ NLive = 0
    /\ last.op = "alloc" /\ last.res = "null"
    /\ \E i \in Classes :
          /\ i # ClassOf(last.layout)
          /\ Len(fsb.list_heads[i]) * BLOCK_SIZES[i] >= last.layout.size
    /\ \A i \in Classes : i = ClassOf(last.layout) => fsb.list_heads[i] = <<>>

----------------------------------------------------------------------------
(* More claims about the executor, checked under SpecExec *)

\* C34: whatever the interleaving of polls, task completions and wake-ups in
\* interrupts, an interrupt handler never drops the last reference to a
\* TaskWaker: a handler that drops one leaves the one of waker_cache, so no
\* handler deallocates.
C34_NoLastDropInHandler ==
    [][/\ ex'.nint > ex.nint =>
            \A t \in TaskIds : ex'.rc[t] < ex.rc[t] =>
                (ex'.rc[t] >= 1 /\ t \in ex'.waker_cache)
       /\ ~ex'.int_alloc]_vars

\* C34 witness: add_scancode has woken the keyboard task and dropped the
\* waker it took from WAKER, after another task has completed and its waker
\* has been dropped by the main flow.
C34_Witness ==
    /\ ex.handler = "add_scancode_wake"
    /\ ex.WAKER = 0
    /\ ex.rc[KEYBOARD_TASK] = 1
    /\ KEYBOARD_TASK \in ex.waker_cache
    /\ \E t \in TaskIds : t \notin ex.tasks /\ ex.rc[t] = 0

----------------------------------------------------------------------------
(* Claims about the executor with a full-sized set of tasks, checked under
   SpecExecTight *)

\* C35: a task_queue with room for as many ids as there are tasks is enough:
\* the queue never holds more ids than its capacity and TaskWaker::wake_task
\* never panics with "task queue full" (spawn, which runs before run, never
\* panics with "queue full"), whatever the polls and wake-ups.
C35_QueueNeverFull ==
    Cardinality(ex.tasks) <= ex.task_queue_capacity =>
        /\ Len(ex.task_queue) <= ex.task_queue_capacity
        /\ ~(ex.panic /\ ex.handler = "add_scancode_wake")

----------------------------------------------------------------------------
(* Claims about the executor with tasks that are any future, checked under
   SpecExecAny *)

\* run_ready_tasks is about to pop an id whose task is not in the map
StaleIdNext ==
    /\ MainRuns /\ ex.pc = "pop"
    /\ ~is_empty(ex.task_queue)
    /\ Head(ex.task_queue) \notin ex.tasks

\* C36: an id popped from task_queue whose task is no longer in the tasks map
\* is ignored: the id is gone from the queue, no task is polled, no waker is
\* created or cached, nothing panics, and the loop goes on with the next id.
C36_StaleIdIgnored ==
    [][(StaleIdNext /\ ex'.nint = ex.nint) =>
          /\ ex'.task_queue = Tail(ex.task_queue)
          /\ ex'.pc = "pop" /\ ex'.task_id = 0
          /\ ex'.tasks = ex.tasks
          /\ ex'.waker_cache = ex.waker_cache
          /\ ex'.rc = ex.rc /\ ex'.created = ex.created
          /\ ~ex'.panic]_vars

\* the id of a task that woke itself and was Ready has been popped and
\* ignored, and the keyboard task is still there to be polled
C36_Witness ==
    /\ ex.ignored > 0
    /\ ex.pc = "pop" /\ ~ex.panic
    /\ KEYBOARD_TASK \in ex.tasks
    /\ \E t \in TaskIds : t \notin ex.tasks /\ ex.created[t] = 1 /\ ex.rc[t] = 0

\* the places of one iteration of run_ready_tasks' loop, after the pop
InIteration == {"new_waker", "poll", "poll_next", "register", "pop2", "remove"}

\* C37: when a task's poll returns Ready the task and its cached waker are
\* both removed, and the task is never polled again; between the iterations
\* of run_ready_tasks the keys of waker_cache are keys of tasks; at most one
\* TaskWaker is ever created per task.
C37_ReadyRemovesTaskAndWaker ==
    [][/\ (ex.pc = "remove" /\ ex'.nint = ex.nint) =>
              /\ ex.task_id \notin ex'.tasks
              /\ ex.task_id \notin ex'.waker_cache
       /\ ex'.tasks \subseteq ex.tasks
       /\ ex'.pc \in InIteration => ex'.task_id \in ex'.tasks
       /\ ex'.pc \notin InIteration => ex'.waker_cache \subseteq ex'.tasks
       /\ \A t \in TaskIds : ex'.created[t] <= 1]_vars

\* a task was Ready and is gone with its waker, and the keyboard task is
\* polled once more with the waker made at its first poll
C37_Witness ==
    /\ ex.pc = "poll" /\ ex.task_id = KEYBOARD_TASK
    /\ ex.SCANCODE_QUEUE.init
    /\ ex.created[KEYBOARD_TASK] = 1 /\ KEYBOARD_TASK \in ex.waker_cache
    /\ \E t \in TaskIds :
          /\ t \notin ex.tasks /\ t \notin ex.waker_cache
          /\ ex.created[t] = 1

----------------------------------------------------------------------------
(* The printing functions of the main flow and the handlers that print *)

MaxPrints == 3

InitPrinter ==
    /\ which = "none"
    /\ inited = FALSE
    /\ bump = BumpNew
    /\ head = <<>>
    /\ mem = MemNew
    /\ live = EmptyBag
    /\ last = NoCall
    /\ cyc = NoCycle
    /\ panicked = FALSE
    /\ fsb = FsbNew
    /\ pf = NoApply
    /\ lk = LockedNew
    /\ ih = InitHeapNotCalled
    /\ ex = ExecutorNew(<<>>)
    /\ vga = VgaNew(BlankBuffer)
    /\ pr = PrinterNew

\* the main flow can take a step: no handler spins
PrMainRuns == pr.stuck = "none"

\* a step of the main flow, which ends what a handler was seen doing
PrStep(p) ==
    /\ pr' = [p EXCEPT !.handler = "none"]
    /\ UNCHANGED notPrinter

\* write_to_vga, called by kernel_main before init(): WRITER.lock() with the
\* interrupts as they are
PrWriteToVga ==
    /\ PrMainRuns /\ pr.pc = "idle" /\ pr.phase = "boot"
    /\ pr.nprints < MaxPrints
    /\ PrStep([pr EXCEPT !.fn = "write_to_vga", !.lock = "WRITER",
                         !.pc = "lock", !.nprints = @ + 1])

\* min_rust_os::init(): the IDT is loaded and the interrupts are enabled
PrInit ==
    /\ PrMainRuns /\ pr.pc = "idle" /\ pr.phase = "boot"
    /\ PrStep([pr EXCEPT !.phase = "run", !.interrupts = TRUE])

\* print!, println! (vga_buffer::_print, lock WRITER) and serial_print!
\* (serial::_print, lock SERIAL1) in the main flow: without_interrupts is
\* entered
PrPrint(l) ==
    /\ PrMainRuns /\ pr.pc = "idle"
    /\ pr.nprints < MaxPrints
    /\ PrStep([without_interrupts(pr) EXCEPT
                  !.fn = "_print", !.lock = l,
                  !.pc = "lock", !.nprints = @ + 1])

\* test_println_output: without_interrupts around WRITER.lock() and writeln!
PrTestPrintlnOutput ==
    /\ PrMainRuns /\ pr.pc = "idle" /\ pr.phase = "run"
    /\ pr.nprints < MaxPrints
    /\ PrStep([without_interrupts(pr) EXCEPT
                  !.fn = "test_println_output", !.lock = "WRITER",
                  !.pc = "lock", !.nprints = @ + 1])

\* Mutex::lock in the main flow
PrLock ==
    /\ PrMainRuns /\ pr.pc = "lock"
    /\ pr.held[pr.lock] = "free"
    /\ PrStep([pr EXCEPT !.held[pr.lock] = "main", !.pc = "write"])

\* write_fmt, write_str, writeln! on the guard
PrWriteFmt ==
    /\ PrMainRuns /\ pr.pc = "write"
    /\ PrStep([pr EXCEPT !.pc = "unlock"])

\* the guard is dropped at the end of the statement or of the closure
PrUnlock ==
    /\ PrMainRuns /\ pr.pc = "unlock"
    /\ IF pr.fn = "write_to_vga"
       THEN PrStep([pr EXCEPT !.held[pr.lock] = "free", !.pc = "idle",
                              !.fn = "none", !.lock = "none"])
       ELSE PrStep([pr EXCEPT !.held[pr.lock] = "free", !.pc = "restore"])

\* without_interrupts returns
PrRestore ==
    /\ PrMainRuns /\ pr.pc = "restore"
    /\ PrStep([without_interrupts_end(pr) EXCEPT
                  !.pc = "idle", !.fn = "none", !.lock = "none"])

\* a handler ran on top of the main flow: to its end, or into a spin
PrHandled(p, name) ==
    /\ pr' = [p EXCEPT !.nint = @ + 1, !.handler = name]
    /\ UNCHANGED notPrinter

\* a maskable interrupt can be delivered
PrInterruptible ==
    /\ PrMainRuns /\ pr.phase = "run" /\ pr.interrupts
    /\ pr.nint < MaxInterrupts

\* timer_interrupt_handler: print!(".")
PrTimer ==
    /\ PrInterruptible
    /\ PrHandled(handler_print(pr, "WRITER", "timer"), "timer")

\* keyboard_interrupt_handler: print! of the key when the scancode decodes
\* to one
PrKeyboard ==
    /\ PrInterruptible
    /\ \E key \in BOOLEAN :
          PrHandled(IF key THEN handler_print(pr, "WRITER", "keyboard") ELSE pr,
                    "keyboard")

\* breakpoint_handler: println!, after an int3 the main flow executes
\* between two of its statements; exceptions are not masked
PrBreakpoint ==
    /\ PrMainRuns /\ pr.phase = "run" /\ pr.pc = "idle"
    /\ pr.nint < MaxInterrupts
    /\ PrHandled(handler_print(pr, "WRITER", "breakpoint"), "breakpoint")

NextPrinter ==
    \/ PrWriteToVga
    \/ PrInit
    \/ \E l \in Locks : PrPrint(l)
    \/ PrTestPrintlnOutput
    \/ PrLock
    \/ PrWriteFmt
    \/ PrUnlock
    \/ PrRestore
    \/ PrTimer
    \/ PrKeyboard
    \/ PrBreakpoint

SpecPrinter == InitPrinter /\ [][NextPrinter]_vars

\* C38: printing never deadlocks against an interrupt: _print holds WRITER
\* or SERIAL1 only while the interrupts are disabled, and no handler that
\* prints (timer, keyboard, breakpoint) ever spins on a lock held by the
\* context it interrupted.
C38_PrintNeverDeadlocks ==
    /\ \A l \in Locks : (pr.held[l] = "main" /\ pr.fn = "_print") => ~pr.interrupts
    /\ pr.stuck = "none"

\* _print holds WRITER in the main flow, entered with the interrupts enabled,
\* after a handler has printed
C38_Witness ==
    /\ pr.phase = "run" /\ pr.fn = "_print" /\ pr.pc = "write"
    /\ pr.saved /\ pr.held["WRITER"] = "main"
    /\ pr.nint > 0

====
